---- MODULE Spec2Model ----
(***************************************************************************)
(* Model of the audio pipeline of src/App.tsx: the playback coordinator    *)
(* (playMessageAudio, stopAudioPlayback, playBuffer), the pending autoplay *)
(* queue and its retry chains (tryPlayPending), the autoplay unlock        *)
(* (unlockAudioContext, handleUserGesture), the recording session          *)
(* (startRecording, stopRecording) and the response orchestrator           *)
(* (handleRecordingComplete, generateSpeechWithRetry, prefetchVocabAudio,  *)
(* handleSpeakVocab).                                                      *)
(*                                                                         *)
(* The program is single-threaded: one action is one run-to-completion     *)
(* stretch of a callback, from its entry or from the await it resumes at   *)
(* up to its next await or its return.  React state and the refs that      *)
(* mirror it are separate variables; the effects that copy state into the  *)
(* refs are the action Render.                                             *)
(*                                                                         *)
(* User inputs are separate events: a pointerdown or keydown runs          *)
(* handleUserGesture (GestureStart), a click runs the button's handler.    *)
(* The variable scope says how many recordings and how many other inputs   *)
(* a run explores and how far the retry timers run; each specification at  *)
(* the end of the module fixes a scope and the handlers it interleaves.    *)
(***************************************************************************)
EXTENDS Integers, Sequences, FiniteSets, TLC

\* ---------------------------------------------------------------- bounds
MaxTurns == 2        \* completed recordings (handleRecordingComplete runs)
MaxChains == 2       \* tryPlayPending retry chains alive at once
MaxSources == 2      \* buffer sources that exist at once (playing or ending)
MaxManual == 1       \* manual play clicks in flight at once
MaxRetryDepth == 2   \* retry count up to which the retry timers run
MaxInputs == 2       \* gestures, play clicks, vocabulary clicks, toggles
MaxTerms == 1        \* distinct vocabulary terms the analysis returns
MaxRecorders == 2    \* MediaRecorders that exist at once
MaxStarters == 2     \* startRecording invocations in flight at once
MaxTexts == 1        \* distinct reply texts the analysis returns
MaxTicks == 14       \* volume samples taken during one recording
MaxSessions == 2     \* recordings whose volume meter is followed
MaxFrames == 3       \* 16-bit samples of a synthesised clip

\* ------------------------------------------------------ program constants
RetryCeiling == 20   \* tryPlayPending: retryCount > 20 gives up
DefaultRetries == 1  \* generateSpeechWithRetry: retries = 1

Null == 0
Turns == 1..MaxTurns
ChainIds == 1..MaxChains
ManualIds == 1..MaxManual
StarterIds == 1..MaxStarters
Terms == 1..MaxTerms
Texts == 1..MaxTexts

VARIABLES
  ctxState,             \* audioContextRef.current.state
  sources,              \* AudioBufferSourceNodes started and not yet ended
  sourceNodeRef,        \* sourceNodeRef.current (a sid or Null)
  currentlyPlayingId,   \* React state
  pendingQueue,         \* pendingAutoPlayQueueRef.current
  audioUnlockRequired,  \* React state
  messages,             \* React state
  messagesRef,          \* messagesRef.current
  isLoading,            \* React state
  isLoadingRef,         \* isLoadingRef.current
  isRecording,          \* React state
  isRecordingRef,       \* isRecordingRef.current
  shadowMode,           \* settings.shadowMode (React state)
  shadowModeRef,        \* settingsRef.current.shadowMode
  shadowStartTimeoutRef,\* shadowStartTimeoutRef.current is non-null
  shadowTimer,          \* the shadow-start timeout is scheduled
  mediaRecorderRef,     \* mediaRecorderRef.current (a rid or Null)
  recorders,            \* MediaRecorders recording or with events pending
  audioChunks,          \* audioChunksRef.current.length
  vadIntervalRef,       \* vadIntervalRef.current is non-null
  vadNodes,             \* analyserRef / vadSourceRef are non-null
  ttsQuotaExceeded,     \* ttsQuotaExceededRef.current
  vocabCache,           \* vocabAudioCacheRef.current (terms of the voice)
  turn,                 \* one handleRecordingComplete run per turn
  prefetch,             \* prefetchVocabAudio run of each turn
  chains,               \* tryPlayPending chains: timer or play in flight
  gesture,              \* handleUserGesture in flight
  manual,               \* playMessageAudio calls made by the play buttons
  speak,                \* handleSpeakVocab in flight
  rephrase,             \* handleRephrase in flight
  starter,              \* startRecording in flight
  stopper,              \* stopRecording in flight
  lateRequest,          \* history: who issued a remote generateSpeech
                        \* request while the quota flag was set
  earlyRequest,         \* history: turns whose first remote request was
                        \* issued before the append or while loading
  fallbackLog,          \* history: speakWithBrowser invocations
  lastGiveUp,           \* history: the last chain that hit the ceiling
  scope,                \* what the run explores: how many recordings and
                        \* other inputs the user makes, and up to which
                        \* retry count the retry timers get to run
  alerts,               \* history: alert() calls of startRecording's catch
  recordings,           \* history: startRecording invocations so far
  inputs,               \* history: other user inputs so far
  call                  \* a function of the program examined on its own:
                        \* its arguments, the state it keeps, its result

playbackVars == <<sources, sourceNodeRef, currentlyPlayingId, pendingQueue,
                  audioUnlockRequired>>
msgVars == <<messages, messagesRef>>
loadVars == <<isLoading, isLoadingRef>>
shadowVars == <<shadowMode, shadowModeRef, shadowStartTimeoutRef, shadowTimer>>
recVars == <<isRecording, isRecordingRef, mediaRecorderRef, recorders,
             audioChunks, vadIntervalRef, vadNodes>>
ttsVars == <<ttsQuotaExceeded, vocabCache>>
procVars == <<turn, prefetch, chains, gesture, manual, speak, rephrase,
             starter, stopper>>
histVars == <<lateRequest, earlyRequest, fallbackLog, lastGiveUp,
             scope, alerts, recordings, inputs, call>>
vars == <<ctxState, playbackVars, msgVars, loadVars, shadowVars, recVars,
          ttsVars, procVars, histVars>>

\* ------------------------------------------------------------- helpers
Includes(q, x) == \E i \in 1..Len(q) : q[i] = x
Filter(q, x) == SelectSeq(q, LAMBDA y : y # x)
Shift(q) == IF q = <<>> THEN q ELSE Tail(q)
Count(q, x) == Cardinality({i \in 1..Len(q) : q[i] = x})

\* messagesRef.current.find(m => m.id === id)?.audioBuffer
FindAudio(ms, id) == \E i \in 1..Len(ms) : ms[i].id = id /\ ms[i].audioBuffer

\* The playback store: the mutable state the playback functions share.
PB == [sources |-> sources, sourceNodeRef |-> sourceNodeRef,
       currentlyPlayingId |-> currentlyPlayingId,
       pendingQueue |-> pendingQueue,
       audioUnlockRequired |-> audioUnlockRequired]

SetPB(s) ==
  /\ sources' = s.sources
  /\ sourceNodeRef' = s.sourceNodeRef
  /\ currentlyPlayingId' = s.currentlyPlayingId
  /\ pendingQueue' = s.pendingQueue
  /\ audioUnlockRequired' = s.audioUnlockRequired

Active(S) == {x \in S : x.st = "playing"}

\* A fresh source identity: not a live source, not what the ref still holds.
NewSid(s) ==
  CHOOSE i \in 1..(MaxSources + 2) :
    i \notin ({x.sid : x \in s.sources} \cup {s.sourceNodeRef})

\* stopAudioPlayback: stop() the referenced source (its ended event stays
\* pending), null the ref, clear the marker.
stopAudioPlayback(s) ==
  [s EXCEPT
     !.sources = {IF x.sid = s.sourceNodeRef /\ x.st = "playing"
                    THEN [x EXCEPT !.st = "stopped"] ELSE x : x \in s.sources},
     !.sourceNodeRef = Null,
     !.currentlyPlayingId = Null]

\* createBufferSource ... sourceNodeRef.current = source; source.start()
startSource(s, msgId, kind) ==
  LET sid == NewSid(s) IN
  [s EXCEPT
     !.sources = @ \cup {[sid |-> sid, msg |-> msgId, kind |-> kind,
                          st |-> "playing"]},
     !.sourceNodeRef = sid]

\* A variant of playMessageAudioFinish that pushes the id without the
\* includes() test of line 786: C2_BlockedPlay tells the two apart.
playMessageAudioFinishAlwaysPush(s, ctx, msgId, hasBuffer) ==
  IF ctx # "running"
    THEN [played |-> FALSE,
          s |-> [s EXCEPT !.pendingQueue = Append(@, msgId),
                          !.audioUnlockRequired = TRUE]]
    ELSE IF hasBuffer \/ FindAudio(messagesRef, msgId)
      THEN [played |-> TRUE,
            s |-> [startSource(s, msgId, "msg") EXCEPT
                     !.currentlyPlayingId = msgId,
                     !.audioUnlockRequired = FALSE]]
      ELSE [played |-> FALSE, s |-> s]

\* playMessageAudio from the state check after the resume to the return.
playMessageAudioFinish(s, ctx, msgId, hasBuffer) ==
  IF ctx # "running"
    THEN [played |-> FALSE,
          s |-> [s EXCEPT
                   !.pendingQueue = IF Includes(@, msgId) THEN @
                                    ELSE Append(@, msgId),
                   !.audioUnlockRequired = TRUE]]
    ELSE IF hasBuffer \/ FindAudio(messagesRef, msgId)
      THEN [played |-> TRUE,
            s |-> [startSource(s, msgId, "msg") EXCEPT
                     !.currentlyPlayingId = msgId,
                     !.audioUnlockRequired = FALSE]]
      ELSE [played |-> FALSE, s |-> s]

\* playMessageAudio from its entry to the first await (or to its return when
\* the context is not suspended and no await is taken).
playMessageAudioStart(s, ctx, msgId, hasBuffer) ==
  LET s1 == stopAudioPlayback(s) IN
  IF ctx = "suspended"
    THEN [await |-> TRUE, played |-> FALSE, s |-> s1]
    ELSE LET f == playMessageAudioFinish(s1, ctx, msgId, hasBuffer) IN
         [await |-> FALSE, played |-> f.played, s |-> f.s]

\* ------------------------------------------------------ tryPlayPending
FreeChain == [st |-> "free", n |-> 0, msg |-> Null, start |-> 0, fails |-> 0]
TimerChain(n, start, fails) ==
  [st |-> "timer", n |-> n, msg |-> Null, start |-> start, fails |-> fails]

\* The then-callback of tryPlayPending's playMessageAudio call.
pendingPlayed(s, played, c) ==
  IF played
    THEN [s |-> [s EXCEPT !.pendingQueue = Shift(@)], chain |-> FreeChain,
          gaveUp |-> FALSE]
    ELSE [s |-> [s EXCEPT !.audioUnlockRequired = TRUE],
          chain |-> TimerChain(c.n + 1, c.start, c.fails + 1),
          gaveUp |-> FALSE]

\* A variant of tryPlayPending whose ceiling test is retryCount >= 20:
\* C5_RetryCeiling tells the two apart.
tryPlayPendingAtCeiling(s, ctx, c) ==
  IF c.n >= RetryCeiling
    THEN [s |-> [s EXCEPT !.audioUnlockRequired = TRUE], chain |-> FreeChain,
          gaveUp |-> TRUE]
  ELSE IF s.pendingQueue = <<>>
    THEN [s |-> s, chain |-> FreeChain, gaveUp |-> FALSE]
  ELSE LET pendingId == Head(s.pendingQueue) IN
    IF FindAudio(messagesRef, pendingId)
      THEN LET b == playMessageAudioStart(s, ctx, pendingId, TRUE) IN
           IF b.await
             THEN [s |-> b.s,
                   chain |-> [c EXCEPT !.st = "pResume", !.msg = pendingId],
                   gaveUp |-> FALSE]
             ELSE pendingPlayed(b.s, b.played, c)
      ELSE [s |-> s, chain |-> TimerChain(c.n + 1, c.start, c.fails + 1),
            gaveUp |-> FALSE]

\* tryPlayPending(retryCount) up to its return; c carries retryCount and the
\* chain's history.
tryPlayPending(s, ctx, c) ==
  IF c.n > RetryCeiling
    THEN [s |-> [s EXCEPT !.audioUnlockRequired = TRUE], chain |-> FreeChain,
          gaveUp |-> TRUE]
  ELSE IF s.pendingQueue = <<>>
    THEN [s |-> s, chain |-> FreeChain, gaveUp |-> FALSE]
  ELSE LET pendingId == Head(s.pendingQueue) IN
    IF FindAudio(messagesRef, pendingId)
      THEN LET b == playMessageAudioStart(s, ctx, pendingId, TRUE) IN
           IF b.await
             THEN [s |-> b.s,
                   chain |-> [c EXCEPT !.st = "pResume", !.msg = pendingId],
                   gaveUp |-> FALSE]
             ELSE pendingPlayed(b.s, b.played, c)
      ELSE [s |-> s, chain |-> TimerChain(c.n + 1, c.start, c.fails + 1),
            gaveUp |-> FALSE]

\* ------------------------------------------------------------ isQuotaError
\* Error messages are sequences of characters.
ErrResourceExhausted ==
  <<"R","E","S","O","U","R","C","E","_","E","X","H","A","U","S","T","E","D">>
ErrQuotaCapital == <<"Q","u","o","t","a"," ","h","i","t">>
ErrNoAudio == <<"N","o"," ","a","u","d","i","o">>
ErrTtsQuotaExceeded == <<"T","T","S"," ","q","u","o","t","a">>
RemoteErrors == {ErrResourceExhausted, ErrQuotaCapital, ErrNoAudio}

UpperCase == <<"A", "B", "C", "D", "E", "F", "G", "H", "I", "J", "K", "L", "M">> \o
             <<"N", "O", "P", "Q", "R", "S", "T", "U", "V", "W", "X", "Y", "Z">>
LowerCase == <<"a", "b", "c", "d", "e", "f", "g", "h", "i", "j", "k", "l", "m">> \o
             <<"n", "o", "p", "q", "r", "s", "t", "u", "v", "w", "x", "y", "z">>
LowerChar(c) ==
  IF \E k \in 1..Len(UpperCase) : UpperCase[k] = c
    THEN LowerCase[CHOOSE k \in 1..Len(UpperCase) : UpperCase[k] = c]
    ELSE c
toLowerCase(m) == [i \in 1..Len(m) |-> LowerChar(m[i])]
StrIncludes(m, sub) ==
  \E i \in 0..(Len(m) - Len(sub)) : \A j \in 1..Len(sub) : m[i + j] = sub[j]

\* A variant of isQuotaError without the toLowerCase() of line 192:
\* C10_QuotaFallback tells the two apart.
isQuotaErrorCaseSensitive(m) ==
  \/ StrIncludes(m, ErrResourceExhausted)
  \/ StrIncludes(m, <<"q","u","o","t","a">>)

\* message.includes("RESOURCE_EXHAUSTED") ||
\* message.toLowerCase().includes("quota")
isQuotaError(m) ==
  \/ StrIncludes(m, ErrResourceExhausted)
  \/ StrIncludes(toLowerCase(m), <<"q","u","o","t","a">>)

\* ------------------------------------------------------------------- Init
IdleTurn == [pc |-> "none", text |-> Null, vocab |-> Null, retries |-> 0,
             attempts |-> 0, fails |-> 0, err |-> <<>>, ret |-> "none"]
IdleManual == [pc |-> "idle", msg |-> Null, ret |-> "none"]
Ret(played) == IF played THEN "played" ELSE "blocked"
IdleSpeak == [pc |-> "idle", term |-> Null]
IdleRephrase == [pc |-> "idle", msg |-> Null]
NoGiveUp == [any |-> FALSE, start |-> 0, fails |-> 0, flip |-> FALSE]

\* The state of the component after it mounted, for a run that explores sc.
AppMounted(sc) ==
  /\ ctxState \in {"suspended", "running"}
  /\ sources = {}
  /\ sourceNodeRef = Null
  /\ currentlyPlayingId = Null
  /\ pendingQueue = <<>>
  /\ audioUnlockRequired = FALSE
  /\ messages = <<>>
  /\ messagesRef = <<>>
  /\ isLoading = FALSE
  /\ isLoadingRef = FALSE
  /\ isRecording = FALSE
  /\ isRecordingRef = FALSE
  /\ shadowMode = sc.shadow
  /\ shadowModeRef = shadowMode
  /\ shadowStartTimeoutRef = FALSE
  /\ shadowTimer = FALSE
  /\ mediaRecorderRef = Null
  /\ recorders = {}
  /\ audioChunks = 0
  /\ vadIntervalRef = FALSE
  /\ vadNodes = FALSE
  /\ ttsQuotaExceeded = FALSE
  /\ vocabCache = {}
  /\ turn = [t \in Turns |-> IdleTurn]
  /\ prefetch = [t \in Turns |-> "none"]
  /\ chains = [i \in ChainIds |-> FreeChain]
  /\ gesture = "idle"
  /\ manual = [m \in ManualIds |-> IdleManual]
  /\ speak = IdleSpeak
  /\ rephrase = IdleRephrase
  /\ starter = [i \in StarterIds |-> "idle"]
  /\ stopper = "idle"
  /\ lateRequest = {}
  /\ earlyRequest = {}
  /\ fallbackLog = {}
  /\ lastGiveUp = NoGiveUp
  /\ scope = sc
  /\ alerts = 0
  /\ recordings = 0
  /\ inputs = 0

\* No function is examined on its own.
NoCall == [fn |-> "none"]

\* The state after the component mounted, for a run that explores sc.
Mounted(sc) == AppMounted(sc) /\ call = NoCall

Init == Mounted([turns |-> MaxTurns - 1, inputs |-> MaxInputs,
                 retry |-> MaxRetryDepth,
                 starts |-> 1, shadow |-> FALSE])

\* ------------------------------------------------ shared step fragments
\* await ctx.resume(): the browser resolves it with the context running,
\* resolves it with the context still not running, or rejects it.
ResumeOutcomes == {"running", "still", "reject"}
Resumed(o) == ctxState' = IF o = "running" THEN "running" ELSE ctxState
CtxAfter(o) == IF o = "running" THEN "running" ELSE ctxState

\* unlockAudioContext up to its first await.
unlockStart == IF ctxState = "suspended" THEN "uResume" ELSE "uTone"

\* A chain produced by a step takes the first free slot.
Spawn(c) ==
  IF c.st = "free" THEN chains' = chains
  ELSE \E i \in ChainIds :
         /\ chains[i].st = "free"
         /\ \A j \in ChainIds : j < i => chains[j].st # "free"
         /\ chains' = [chains EXCEPT ![i] = c]

NoteGiveUp(r, c) ==
  lastGiveUp' = IF r.gaveUp
                  THEN [any |-> TRUE, start |-> c.start, fails |-> c.fails,
                        flip |-> ~lastGiveUp.flip]
                  ELSE lastGiveUp

CanStartSource == Cardinality(sources) < MaxSources

\* ----------------------------------------------------------------- Render
\* React commits a state update and runs its effects as the next task: no
\* timer, network response or input event is handled between a setState and
\* the effects that copy the new state into the refs.
Synced ==
  /\ messagesRef = messages
  /\ isLoadingRef = isLoading
  /\ isRecordingRef = isRecording
  /\ shadowModeRef = shadowMode

\* The handlers are followed while the component is mounted: the teardown
\* closes the audio context, and the run ends there.
Committed == Synced /\ ctxState # "closed"

\* The effects of lines 104-121: copy React state into the refs; the
\* shadowMode effect cancels the shadow-start timer when the mode went off.
Render ==
  /\ ~Synced
  /\ ctxState # "closed"
  /\ messagesRef' = messages
  /\ isLoadingRef' = isLoading
  /\ isRecordingRef' = isRecording
  /\ shadowModeRef' = shadowMode
  /\ IF shadowModeRef # shadowMode /\ ~shadowMode /\ shadowStartTimeoutRef
       THEN shadowStartTimeoutRef' = FALSE /\ shadowTimer' = FALSE
       ELSE UNCHANGED <<shadowStartTimeoutRef, shadowTimer>>
  /\ UNCHANGED <<ctxState, playbackVars, messages, isLoading, isRecording,
                 shadowMode, mediaRecorderRef, recorders, audioChunks,
                 vadIntervalRef, vadNodes, ttsVars, procVars, histVars>>

\* SettingsModal onChangeSettings: the shadow-mode toggle.
ChangeShadowMode ==
  /\ Committed
  /\ inputs < scope.inputs
  /\ inputs' = inputs + 1
  /\ shadowMode' = ~shadowMode
  /\ UNCHANGED <<call, ctxState, playbackVars, msgVars, loadVars, shadowModeRef,
                 shadowStartTimeoutRef, shadowTimer, recVars, ttsVars,
                 procVars, lateRequest, earlyRequest, fallbackLog,
                 lastGiveUp, scope, alerts, recordings>>

\* ---------------------------------------------------- tryPlayPending chains
\* The 250 ms timer of a chain fires: tryPlayPending(retryCount).
ChainTimerFire(i) ==
  /\ Committed
  /\ chains[i].st = "timer"
  /\ chains[i].n <= scope.retry
  /\ CanStartSource
  /\ LET r == tryPlayPending(PB, ctxState, chains[i]) IN
     /\ SetPB(r.s)
     /\ chains' = [chains EXCEPT ![i] = r.chain]
     /\ NoteGiveUp(r, chains[i])
  /\ UNCHANGED <<call, rephrase, ctxState, msgVars, loadVars, shadowVars, recVars, ttsVars,
                 turn, prefetch, gesture, manual, speak, starter, stopper,
                 lateRequest, earlyRequest, fallbackLog,
                 scope, alerts, recordings, inputs>>

\* The play of a chain: await ctx.resume() settles.
ChainPlayResume(i, o) ==
  /\ Committed
  /\ chains[i].st = "pResume"
  /\ CanStartSource
  /\ Resumed(o)
  /\ IF o = "reject"
       THEN LET f == playMessageAudioFinish(PB, ctxState, chains[i].msg, TRUE)
                r == pendingPlayed(f.s, f.played, chains[i]) IN
            /\ SetPB(r.s)
            /\ chains' = [chains EXCEPT ![i] = r.chain]
       ELSE /\ chains' = [chains EXCEPT ![i].st = "pSleep"]
            /\ UNCHANGED playbackVars
  /\ UNCHANGED <<rephrase, msgVars, loadVars, shadowVars, recVars, ttsVars,
                 turn, prefetch, gesture, manual, speak, starter, stopper,
                 histVars>>

\* The play of a chain: the 50 ms sleep is over, the play finishes and the
\* then-callback runs.
ChainPlaySleep(i) ==
  /\ Committed
  /\ chains[i].st = "pSleep"
  /\ CanStartSource
  /\ LET f == playMessageAudioFinish(PB, ctxState, chains[i].msg, TRUE)
         r == pendingPlayed(f.s, f.played, chains[i]) IN
     /\ SetPB(r.s)
     /\ chains' = [chains EXCEPT ![i] = r.chain]
  /\ UNCHANGED <<rephrase, ctxState, msgVars, loadVars, shadowVars, recVars, ttsVars,
                 turn, prefetch, gesture, manual, speak, starter, stopper,
                 histVars>>

\* ------------------------------------------------------ handleUserGesture
\* pointerdown / keydown: unlockAudioContext starts.
GestureStart ==
  /\ Committed
  /\ inputs < scope.inputs
  /\ inputs' = inputs + 1
  /\ gesture = "idle"
  /\ gesture' = unlockStart
  /\ UNCHANGED <<call, rephrase, ctxState, playbackVars, msgVars, loadVars, shadowVars,
                 recVars, ttsVars, turn, prefetch, chains, manual, speak,
                 starter, stopper, lateRequest, earlyRequest, fallbackLog,
                 lastGiveUp, scope, alerts, recordings>>

\* A variant of gestureContinue that stops after the unlock attempt and
\* drains nothing: C30_GestureDrainsHead tells the two apart.
gestureContinueNoDrain(unlocked, ctx) ==
  /\ SetPB(IF unlocked THEN PB ELSE [PB EXCEPT !.audioUnlockRequired = TRUE])
  /\ UNCHANGED <<chains, lastGiveUp>>
  /\ gesture' = "idle"

\* The rest of handleUserGesture once unlockAudioContext returned unlocked.
gestureContinue(unlocked, ctx) ==
  LET s1 == IF unlocked THEN PB ELSE [PB EXCEPT !.audioUnlockRequired = TRUE]
      c0 == [FreeChain EXCEPT !.n = 0, !.start = 0]
      r == tryPlayPending(s1, ctx, c0) IN
  /\ SetPB(r.s)
  /\ Spawn(r.chain)
  /\ NoteGiveUp(r, c0)
  /\ gesture' = "idle"

GestureResume(o) ==
  /\ Committed
  /\ gesture = "uResume"
  /\ CanStartSource
  /\ Resumed(o)
  /\ IF o = "reject"
       THEN gestureContinue(FALSE, ctxState)
       ELSE /\ gesture' = "uTone"
            /\ UNCHANGED <<playbackVars, chains, lastGiveUp>>
  /\ UNCHANGED <<call, rephrase, msgVars, loadVars, shadowVars, recVars, ttsVars, turn,
                 prefetch, manual, speak, starter, stopper, lateRequest, earlyRequest,
                 fallbackLog,
                 scope, alerts, recordings, inputs>>

\* The probe tone ended or the 100 ms timeout fired.
GestureTone ==
  /\ Committed
  /\ gesture = "uTone"
  /\ CanStartSource
  /\ gestureContinue(ctxState = "running", ctxState)
  /\ UNCHANGED <<call, rephrase, ctxState, msgVars, loadVars, shadowVars, recVars, ttsVars,
                 turn, prefetch, manual, speak, starter, stopper, lateRequest, earlyRequest,
                 fallbackLog,
                 scope, alerts, recordings, inputs>>

\* ------------------------------------------------- play buttons (onPlay)
\* onPlay / onPlaySlow of a message whose play button is rendered.
ManualPlay(m, id) ==
  /\ Committed
  /\ inputs < scope.inputs
  /\ inputs' = inputs + 1
  /\ manual[m].pc = "idle"
  /\ CanStartSource
  /\ FindAudio(messagesRef, id)
  /\ LET b == playMessageAudioStart(PB, ctxState, id, FALSE) IN
     /\ SetPB(b.s)
     /\ manual' = [manual EXCEPT
                     ![m] = IF b.await
                              THEN [pc |-> "pResume", msg |-> id,
                                    ret |-> "none"]
                              ELSE [IdleManual EXCEPT
                                      !.ret = Ret(b.played)]]
  /\ UNCHANGED <<call, rephrase, ctxState, msgVars, loadVars, shadowVars, recVars, ttsVars,
                 turn, prefetch, chains, gesture, speak, starter, stopper,
                 lateRequest, earlyRequest, fallbackLog,
                 lastGiveUp, scope, alerts, recordings>>

ManualPlayResume(m, o) ==
  /\ Committed
  /\ manual[m].pc = "pResume"
  /\ CanStartSource
  /\ Resumed(o)
  /\ IF o = "reject"
       THEN LET f == playMessageAudioFinish(PB, ctxState, manual[m].msg,
                                            FALSE) IN
            /\ SetPB(f.s)
            /\ manual' = [manual EXCEPT
                            ![m] = [IdleManual EXCEPT !.ret = Ret(f.played)]]
       ELSE /\ manual' = [manual EXCEPT ![m].pc = "pSleep"]
            /\ UNCHANGED playbackVars
  /\ UNCHANGED <<rephrase, msgVars, loadVars, shadowVars, recVars, ttsVars, turn,
                 prefetch, chains, gesture, speak, starter, stopper, histVars>>

ManualPlaySleep(m) ==
  /\ Committed
  /\ manual[m].pc = "pSleep"
  /\ CanStartSource
  /\ LET f == playMessageAudioFinish(PB, ctxState, manual[m].msg, FALSE) IN
     /\ SetPB(f.s)
     /\ manual' = [manual EXCEPT
                     ![m] = [IdleManual EXCEPT !.ret = Ret(f.played)]]
  /\ UNCHANGED <<rephrase, ctxState, msgVars, loadVars, shadowVars, recVars, ttsVars,
                 turn, prefetch, chains, gesture, speak, starter, stopper,
                 histVars>>

\* onStop of the message shown as playing.
ManualStop ==
  /\ Committed
  /\ inputs < scope.inputs
  /\ inputs' = inputs + 1
  /\ currentlyPlayingId # Null
  /\ SetPB(stopAudioPlayback(PB))
  /\ UNCHANGED <<call, ctxState, msgVars, loadVars, shadowVars, recVars, ttsVars,
                 procVars, lateRequest, earlyRequest, fallbackLog,
                 lastGiveUp, scope, alerts, recordings>>

\* ------------------------------------------------------- source.onended
\* The ended event of a source: after its natural end or after stop().
\* Message sources carry the handler of playMessageAudio, vocabulary
\* sources the handler of playBuffer.
SourceEnded(x) ==
  /\ Committed
  /\ x \in sources
  /\ sources' = sources \ {x}
  /\ currentlyPlayingId' = Null
  /\ IF x.kind = "msg"
       THEN IF shadowModeRef /\ ~isRecordingRef /\ ~isLoadingRef
              THEN shadowStartTimeoutRef' = TRUE /\ shadowTimer' = TRUE
              ELSE /\ shadowTimer' = IF shadowStartTimeoutRef THEN FALSE
                                     ELSE shadowTimer
                   /\ UNCHANGED shadowStartTimeoutRef
       ELSE UNCHANGED <<shadowStartTimeoutRef, shadowTimer>>
  /\ UNCHANGED <<ctxState, sourceNodeRef, pendingQueue, audioUnlockRequired,
                 msgVars, loadVars, shadowMode, shadowModeRef, recVars,
                 ttsVars, procVars, histVars>>

\* startRecording up to the await in unlockAudioContext. Nothing in it tests
\* whether an earlier invocation is still in flight; the invocation takes
\* the first free slot of those the run explores.
IdleStarters == {i \in 1..scope.starts : starter[i] = "idle"}
startRecording ==
  /\ IdleStarters # {}
  /\ recordings < scope.turns
  /\ starter' = [starter EXCEPT
                   ![CHOOSE i \in IdleStarters :
                       \A j \in IdleStarters : i <= j] = unlockStart]
  /\ recordings' = recordings + 1

\* The 800 ms shadow-start timeout fires.
ShadowTimerFire ==
  /\ Committed
  /\ shadowTimer
  /\ shadowTimer' = FALSE
  /\ IF shadowModeRef /\ ~isRecordingRef /\ ~isLoadingRef
       THEN startRecording
       ELSE UNCHANGED <<starter, recordings>>
  /\ UNCHANGED <<call, rephrase, ctxState, playbackVars, msgVars, loadVars, shadowMode,
                 shadowModeRef, shadowStartTimeoutRef, recVars, ttsVars,
                 turn, prefetch, chains, gesture, manual, speak, stopper,
                 lateRequest, earlyRequest, fallbackLog, lastGiveUp,
                 scope, alerts, inputs>>

\* -------------------------------------------------------- startRecording
NewRid ==
  CHOOSE i \in 1..(MaxRecorders + 2) :
    i \notin ({r.rid : r \in recorders} \cup {mediaRecorderRef})

\* RecordButton onStart (rendered when not recording, enabled when not
\* loading): startRecording up to the await in unlockAudioContext.
StartClick ==
  /\ Committed
  /\ ~isRecordingRef /\ ~isLoadingRef
  /\ startRecording
  /\ UNCHANGED <<call, rephrase, ctxState, playbackVars, msgVars, loadVars, shadowVars,
                 recVars, ttsVars, turn, prefetch, chains, gesture, manual,
                 speak, stopper, lateRequest, earlyRequest, fallbackLog,
                 lastGiveUp, scope, alerts, inputs>>

\* unlockAudioContext's resume settles; a rejection makes it return false
\* and startRecording goes on to getUserMedia.
StarterResume(i, o) ==
  /\ Committed
  /\ starter[i] = "uResume"
  /\ Resumed(o)
  /\ starter' = [starter EXCEPT ![i] = IF o = "reject" THEN "gum" ELSE "uTone"]
  /\ UNCHANGED <<rephrase, playbackVars, msgVars, loadVars, shadowVars, recVars,
                 ttsVars, turn, prefetch, chains, gesture, manual, speak,
                 stopper, histVars>>

StarterTone(i) ==
  /\ Committed
  /\ starter[i] = "uTone"
  /\ starter' = [starter EXCEPT ![i] = "gum"]
  /\ UNCHANGED <<rephrase, ctxState, playbackVars, msgVars, loadVars, shadowVars,
                 recVars, ttsVars, turn, prefetch, chains, gesture, manual,
                 speak, stopper, histVars>>

\* getUserMedia resolved: recorder created and started, setIsRecording,
\* stopAudioPlayback, setupVAD.
GumOk(i) ==
  /\ Committed
  /\ starter[i] = "gum"
  /\ Cardinality(recorders) < MaxRecorders
  /\ LET rid == NewRid IN
     /\ recorders' = recorders \cup {[rid |-> rid, st |-> "recording"]}
     /\ mediaRecorderRef' = rid
  /\ audioChunks' = 0
  /\ isRecording' = TRUE
  /\ SetPB(stopAudioPlayback(PB))
  /\ vadNodes' = TRUE
  /\ vadIntervalRef' = TRUE
  /\ starter' = [starter EXCEPT ![i] = "idle"]
  /\ UNCHANGED <<rephrase, ctxState, msgVars, loadVars, shadowVars, isRecordingRef,
                 ttsVars, turn, prefetch, chains, gesture, manual, speak,
                 stopper, histVars>>

\* A variant of GumFail that shows the recording state after the alert:
\* C13_DeniedStaysIdle tells the two apart.
GumFailSetsRecording(i) ==
  /\ Committed
  /\ starter[i] = "gum"
  /\ starter' = [starter EXCEPT ![i] = "idle"]
  /\ alerts' = alerts + 1
  /\ isRecording' = TRUE
  /\ UNCHANGED <<call, rephrase, ctxState, playbackVars, msgVars, loadVars, shadowVars,
                 isRecordingRef, mediaRecorderRef, recorders, audioChunks,
                 vadIntervalRef, vadNodes, ttsVars, turn, prefetch, chains,
                 gesture, manual, speak, stopper, lateRequest, earlyRequest,
                 fallbackLog, lastGiveUp, scope, recordings, inputs>>

\* getUserMedia rejected: alert, nothing else.
GumFail(i) ==
  /\ Committed
  /\ starter[i] = "gum"
  /\ starter' = [starter EXCEPT ![i] = "idle"]
  /\ alerts' = alerts + 1
  /\ UNCHANGED <<call, rephrase, ctxState, playbackVars, msgVars, loadVars, shadowVars,
                 recVars, ttsVars, turn, prefetch, chains, gesture, manual,
                 speak, stopper, lateRequest, earlyRequest, fallbackLog,
                 lastGiveUp, scope, recordings, inputs>>

\* --------------------------------------------------------- stopRecording
RecorderState(rid) ==
  IF \E r \in recorders : r.rid = rid /\ r.st = "recording"
    THEN "recording" ELSE "inactive"

\* RecordButton onStop: stopRecording up to the await in unlockAudioContext.
StopClick ==
  /\ Committed
  /\ isRecordingRef /\ ~isLoadingRef
  /\ stopper = "idle"
  /\ vadIntervalRef' = FALSE
  /\ vadNodes' = FALSE
  /\ IF mediaRecorderRef # Null /\ RecorderState(mediaRecorderRef) # "inactive"
       THEN /\ recorders' = {IF r.rid = mediaRecorderRef
                               THEN [r EXCEPT !.st = "flush"] ELSE r :
                             r \in recorders}
            /\ isRecording' = FALSE
       ELSE UNCHANGED <<recorders, isRecording>>
  /\ stopper' = unlockStart
  /\ UNCHANGED <<rephrase, ctxState, playbackVars, msgVars, loadVars, shadowVars,
                 isRecordingRef, mediaRecorderRef, audioChunks, ttsVars,
                 turn, prefetch, chains, gesture, manual, speak, starter,
                 histVars>>

\* stopRecording after unlockAudioContext: start a retry chain at count 1
\* when something is pending.
stopContinue ==
  /\ IF pendingQueue # <<>> THEN Spawn(TimerChain(1, 1, 0))
     ELSE chains' = chains
  /\ stopper' = "idle"

StopperResume(o) ==
  /\ Committed
  /\ stopper = "uResume"
  /\ Resumed(o)
  /\ IF o = "reject" THEN stopContinue
     ELSE stopper' = "uTone" /\ UNCHANGED chains
  /\ UNCHANGED <<rephrase, playbackVars, msgVars, loadVars, shadowVars, recVars,
                 ttsVars, turn, prefetch, gesture, manual, speak, starter,
                 histVars>>

StopperTone ==
  /\ Committed
  /\ stopper = "uTone"
  /\ stopContinue
  /\ UNCHANGED <<rephrase, ctxState, playbackVars, msgVars, loadVars, shadowVars,
                 recVars, ttsVars, turn, prefetch, gesture, manual, speak,
                 starter, histVars>>

\* mediaRecorder.ondataavailable after stop(): a chunk is kept when its size
\* is positive.
DataAvailable(r, nonEmpty) ==
  /\ Committed
  /\ r \in recorders /\ r.st = "flush"
  /\ recorders' = (recorders \ {r}) \cup {[r EXCEPT !.st = "stopEvt"]}
  /\ audioChunks' = IF nonEmpty THEN audioChunks + 1 ELSE audioChunks
  /\ UNCHANGED <<ctxState, playbackVars, msgVars, loadVars, shadowVars,
                 isRecording, isRecordingRef, mediaRecorderRef,
                 vadIntervalRef, vadNodes, ttsVars, procVars, histVars>>

\* ------------------------------------------------ handleRecordingComplete
BotId(t) == t
UserId(t) == 0 - t
HasMsg(ms, id) == \E i \in 1..Len(ms) : ms[i].id = id

UserMsg(t) == [id |-> UserId(t), sender |-> "user", audioBuffer |-> FALSE,
               text |-> Null, vocab |-> Null]
\* A variant of BotMsg that is created with its audio buffer:
\* C7_PairsAppended tells the two apart.
BotMsgWithAudio(t, text, v) ==
  [id |-> BotId(t), sender |-> "bot", audioBuffer |-> TRUE, text |-> text,
   vocab |-> v]

BotMsg(t, text, v) == [id |-> BotId(t), sender |-> "bot",
                       audioBuffer |-> FALSE, text |-> text, vocab |-> v]

\* A remote generateSpeech request as it is issued: by whom, whether it is
\* the first request of turn t, and the list and the flags at that moment.
Request(by, t, first, ms, loading, quota) ==
  [late |-> IF quota THEN {by} ELSE {},
   early |-> IF first /\ (~HasMsg(ms, BotId(t)) \/ loading) THEN {t}
             ELSE {}]
NoRequest == [late |-> {}, early |-> {}]

\* A variant of RecorderOnStop without the length test of line 625:
\* C14_EmptyClipDiscarded tells the two apart.
RecorderOnStopNoLengthTest(r) ==
  /\ Committed
  /\ r \in recorders /\ r.st = "stopEvt"
  /\ recorders' = recorders \ {r}
  /\ isRecording' = FALSE
  /\ \E t \in Turns :
       /\ turn[t].pc = "none"
       /\ \A u \in Turns : u < t => turn[u].pc # "none"
       /\ isLoading' = TRUE
       /\ turn' = [turn EXCEPT ![t].pc = "analyze"]
  /\ UNCHANGED <<rephrase, ctxState, playbackVars, msgVars, isLoadingRef, shadowVars,
                 isRecordingRef, mediaRecorderRef, audioChunks,
                 vadIntervalRef, vadNodes, ttsVars, prefetch, chains,
                 gesture, manual, speak, starter, stopper, histVars>>

\* mediaRecorder.onstop = handleRecordingComplete, up to the await of the
\* analysis request.
RecorderOnStop(r) ==
  /\ Committed
  /\ r \in recorders /\ r.st = "stopEvt"
  /\ recorders' = recorders \ {r}
  /\ isRecording' = FALSE
  /\ IF audioChunks = 0
       THEN UNCHANGED <<isLoading, turn>>
       ELSE \E t \in Turns :
              /\ turn[t].pc = "none"
              /\ \A u \in Turns : u < t => turn[u].pc # "none"
              /\ isLoading' = TRUE
              /\ turn' = [turn EXCEPT ![t].pc = "analyze"]
  /\ UNCHANGED <<rephrase, ctxState, playbackVars, msgVars, isLoadingRef, shadowVars,
                 isRecordingRef, mediaRecorderRef, audioChunks,
                 vadIntervalRef, vadNodes, ttsVars, prefetch, chains,
                 gesture, manual, speak, starter, stopper, histVars>>

\* A variant of AnalysisFail without the setIsLoading(false) of line 753:
\* C8_AnalysisFailureAborts tells the two apart.
AnalysisFailKeepsLoading(t) ==
  /\ Committed
  /\ turn[t].pc = "analyze"
  /\ turn' = [turn EXCEPT ![t].pc = "done"]
  /\ UNCHANGED <<rephrase, ctxState, playbackVars, msgVars, loadVars, shadowVars,
                 recVars, ttsVars, prefetch, chains, gesture, manual, speak,
                 starter, stopper, histVars>>

\* The outer catch: the analysis request failed.
AnalysisFail(t) ==
  /\ Committed
  /\ turn[t].pc = "analyze"
  /\ turn' = [turn EXCEPT ![t].pc = "done"]
  /\ isLoading' = FALSE
  /\ UNCHANGED <<rephrase, ctxState, playbackVars, msgVars, isLoadingRef, shadowVars,
                 recVars, ttsVars, prefetch, chains, gesture, manual, speak,
                 starter, stopper, histVars>>

\* speakWithBrowser up to its await: setCurrentlyPlayingId(msgId).
speakWithBrowser(s, msgId) == [s EXCEPT !.currentlyPlayingId = msgId]

\* A variant of ttsCatch whose final catch speaks the reply whatever the
\* error is: C12_TextOnlyAfterFailure tells the two apart.
ttsCatchAlwaysSpeaks(s, tr, t, err) ==
  IF isQuotaError(err) \/ tr.retries <= 0
    THEN [s |-> speakWithBrowser(
                  [s EXCEPT !.pendingQueue = Filter(@, BotId(t))], BotId(t)),
          tr |-> [tr EXCEPT !.pc = "fallback", !.err = err],
          quota |-> isQuotaError(err), spoke |-> TRUE]
  ELSE [s |-> s, tr |-> [tr EXCEPT !.pc = "backoff", !.err = err],
        quota |-> FALSE, spoke |-> FALSE]

\* The catch of generateSpeechWithRetry followed, when it rethrows, by the
\* ttsError catch of handleRecordingComplete.  tr is the turn's record.
ttsCatch(s, tr, t, err) ==
  IF isQuotaError(err)
    THEN [s |-> speakWithBrowser(
                  [s EXCEPT !.pendingQueue = Filter(@, BotId(t))], BotId(t)),
          tr |-> [tr EXCEPT !.pc = "fallback", !.err = err],
          quota |-> TRUE, spoke |-> TRUE]
  ELSE IF tr.retries <= 0
    THEN [s |-> s, tr |-> [tr EXCEPT !.pc = "done", !.err = err],
          quota |-> FALSE, spoke |-> FALSE]
  ELSE [s |-> s, tr |-> [tr EXCEPT !.pc = "backoff", !.err = err],
        quota |-> FALSE, spoke |-> FALSE]

\* A variant of generateSpeechWithRetry without the flag test of line 223:
\* C11_AtMostOneRetry tells the two apart.
generateSpeechWithRetryNoFlagTest(s, tr, t, ms, loading) ==
  [s |-> s,
   tr |-> [tr EXCEPT !.pc = "tts", !.attempts = @ + 1],
   quota |-> FALSE, spoke |-> FALSE,
   req |-> Request("reply", t, tr.attempts = 0, ms, loading,
                   ttsQuotaExceeded)]

\* generateSpeechWithRetry(text, retries) up to its await: throws at once
\* when the quota flag is set, issues the remote request otherwise.
generateSpeechWithRetry(s, tr, t, ms, loading) ==
  IF ttsQuotaExceeded
    THEN ttsCatch(s, tr, t, ErrTtsQuotaExceeded) @@ [req |-> NoRequest]
    ELSE [s |-> s,
          tr |-> [tr EXCEPT !.pc = "tts", !.attempts = @ + 1],
          quota |-> FALSE, spoke |-> FALSE,
          req |-> Request("reply", t, tr.attempts = 0, ms, loading,
                          ttsQuotaExceeded)]

\* prefetchVocabAudio(vocab) up to its await (at most one term).
prefetchRequested(v) ==
  /\ v # Null
  /\ ~ttsQuotaExceeded
  /\ ~(isRecordingRef \/ isLoadingRef)
  /\ v \notin vocabCache

\* A variant of AnalysisOk that starts the synthesis before setMessages and
\* setIsLoading(false): C6_TextBeforeSpeech tells the two apart.
AnalysisOkSpeechFirst(t, text, v) ==
  /\ Committed
  /\ turn[t].pc = "analyze"
  /\ LET queue1 == IF Includes(pendingQueue, BotId(t)) THEN pendingQueue
                   ELSE Append(pendingQueue, BotId(t))
         tr0 == [turn[t] EXCEPT !.text = text, !.vocab = v,
                                !.retries = DefaultRetries]
         g == generateSpeechWithRetry([PB EXCEPT !.pendingQueue = queue1],
                                      tr0, t, messages, isLoading) IN
     /\ messages' = messages \o <<UserMsg(t), BotMsg(t, text, v)>>
     /\ isLoading' = FALSE
     /\ prefetch' = prefetch
     /\ SetPB(g.s)
     /\ turn' = [turn EXCEPT ![t] = g.tr]
     /\ ttsQuotaExceeded' = (ttsQuotaExceeded \/ g.quota)
     /\ lateRequest' = lateRequest \cup g.req.late
     /\ earlyRequest' = earlyRequest \cup g.req.early
     /\ fallbackLog' = IF g.spoke
                         THEN fallbackLog \cup {[msg |-> BotId(t),
                                                 text |-> text]}
                         ELSE fallbackLog
  /\ UNCHANGED <<call, rephrase, ctxState, messagesRef, isLoadingRef, shadowVars, recVars,
                 vocabCache, chains, gesture, manual, speak, starter,
                 stopper, lastGiveUp, scope, alerts, recordings, inputs>>

\* The analysis resolved: queue the new bot id, append both messages, clear
\* the loading flag, start the prefetch, start the reply's synthesis.
AnalysisOk(t, text, v) ==
  /\ Committed
  /\ turn[t].pc = "analyze"
  /\ LET queue1 == IF Includes(pendingQueue, BotId(t)) THEN pendingQueue
                   ELSE Append(pendingQueue, BotId(t))
         msgs1 == messages \o <<UserMsg(t), BotMsg(t, text, v)>>
         loading1 == FALSE
         pre == IF prefetchRequested(v)
                  THEN Request("prefetch", t, TRUE, msgs1, loading1,
                               ttsQuotaExceeded)
                  ELSE NoRequest
         tr0 == [turn[t] EXCEPT !.text = text, !.vocab = v,
                                !.retries = DefaultRetries]
         g == generateSpeechWithRetry([PB EXCEPT !.pendingQueue = queue1],
                                      tr0, t, msgs1, loading1) IN
     /\ messages' = msgs1
     /\ isLoading' = loading1
     /\ prefetch' = [prefetch EXCEPT
                       ![t] = IF prefetchRequested(v) THEN "req" ELSE "none"]
     /\ SetPB(g.s)
     /\ turn' = [turn EXCEPT ![t] = g.tr]
     /\ ttsQuotaExceeded' = (ttsQuotaExceeded \/ g.quota)
     /\ lateRequest' = lateRequest \cup pre.late \cup g.req.late
     /\ earlyRequest' = earlyRequest \cup pre.early \cup g.req.early
     /\ fallbackLog' = IF g.spoke
                         THEN fallbackLog \cup {[msg |-> BotId(t),
                                                 text |-> text]}
                         ELSE fallbackLog
  /\ UNCHANGED <<call, rephrase, ctxState, messagesRef, isLoadingRef, shadowVars, recVars,
                 vocabCache, chains, gesture, manual, speak, starter,
                 stopper, lastGiveUp,
                 scope, alerts, recordings, inputs>>

\* The reply's generateSpeech request failed with error message err.
TtsFail(t, err) ==
  /\ Committed
  /\ turn[t].pc = "tts"
  /\ LET g == ttsCatch(PB, [turn[t] EXCEPT !.fails = @ + 1], t, err) IN
     /\ SetPB(g.s)
     /\ turn' = [turn EXCEPT ![t] = g.tr]
     /\ ttsQuotaExceeded' = (ttsQuotaExceeded \/ g.quota)
     /\ fallbackLog' = IF g.spoke
                         THEN fallbackLog \cup {[msg |-> BotId(t),
                                                 text |-> turn[t].text]}
                         ELSE fallbackLog
  /\ UNCHANGED <<call, rephrase, ctxState, msgVars, loadVars, shadowVars, recVars,
                 vocabCache, prefetch, chains, gesture, manual, speak,
                 starter, stopper, lateRequest, earlyRequest,
                 lastGiveUp,
                 scope, alerts, recordings, inputs>>

\* sleep(400) is over: generateSpeechWithRetry(text, retries - 1).
BackoffDone(t) ==
  /\ Committed
  /\ turn[t].pc = "backoff"
  /\ LET tr0 == [turn[t] EXCEPT !.retries = @ - 1]
         g == generateSpeechWithRetry(PB, tr0, t, messages, isLoading) IN
     /\ SetPB(g.s)
     /\ turn' = [turn EXCEPT ![t] = g.tr]
     /\ ttsQuotaExceeded' = (ttsQuotaExceeded \/ g.quota)
     /\ lateRequest' = lateRequest \cup g.req.late
     /\ earlyRequest' = earlyRequest \cup g.req.early
     /\ fallbackLog' = IF g.spoke
                         THEN fallbackLog \cup {[msg |-> BotId(t),
                                                 text |-> turn[t].text]}
                         ELSE fallbackLog
  /\ UNCHANGED <<call, rephrase, ctxState, msgVars, loadVars, shadowVars, recVars,
                 vocabCache, prefetch, chains, gesture, manual, speak,
                 starter, stopper, lastGiveUp,
                 scope, alerts, recordings, inputs>>

\* setMessages(prev => prev.map(...)): attach the buffer to the bot message.
attachAudio(ms, id) ==
  [i \in 1..Len(ms) |-> IF ms[i].id = id
                          THEN [ms[i] EXCEPT !.audioBuffer = TRUE] ELSE ms[i]]

\* The reply's request resolved: decode, attach, then unlockAudioContext up
\* to its await.
TtsOk(t) ==
  /\ Committed
  /\ turn[t].pc = "tts"
  /\ messages' = attachAudio(messages, BotId(t))
  /\ turn' = [turn EXCEPT ![t].pc = unlockStart]
  /\ UNCHANGED <<rephrase, ctxState, playbackVars, messagesRef, loadVars, shadowVars,
                 recVars, ttsVars, prefetch, chains, gesture, manual, speak,
                 starter, stopper, histVars>>

\* decodeAudioData threw on the response: the ttsError catch, not a quota
\* error.
DecodeFail(t) ==
  /\ Committed
  /\ turn[t].pc = "tts"
  /\ turn' = [turn EXCEPT ![t].pc = "done", ![t].err = ErrNoAudio]
  /\ UNCHANGED <<rephrase, ctxState, playbackVars, msgVars, loadVars, shadowVars,
                 recVars, ttsVars, prefetch, chains, gesture, manual, speak,
                 starter, stopper, histVars>>

\* handleRecordingComplete after `await playMessageAudio` returned played.
turnPlayed(s, played, t) ==
  IF played
    THEN [s |-> [s EXCEPT !.audioUnlockRequired = FALSE,
                          !.pendingQueue = IF @ # <<>> /\ Head(@) = BotId(t)
                                             THEN Tail(@) ELSE @],
          chain |-> FreeChain]
    ELSE [s |-> [s EXCEPT !.audioUnlockRequired = TRUE],
          chain |-> TimerChain(1, 1, 0)]

\* handleRecordingComplete after `await unlockAudioContext` returned.
turnUnlocked(t, unlocked, ctx) ==
  LET s1 == IF unlocked THEN PB ELSE [PB EXCEPT !.audioUnlockRequired = TRUE]
      b == playMessageAudioStart(s1, ctx, BotId(t), TRUE) IN
  IF b.await
    THEN /\ SetPB(b.s)
         /\ turn' = [turn EXCEPT ![t].pc = "pResume"]
         /\ chains' = chains
    ELSE LET r == turnPlayed(b.s, b.played, t) IN
         /\ SetPB(r.s)
         /\ turn' = [turn EXCEPT ![t].pc = "done", ![t].ret = Ret(b.played)]
         /\ Spawn(r.chain)

TurnUnlockResume(t, o) ==
  /\ Committed
  /\ turn[t].pc = "uResume"
  /\ CanStartSource
  /\ Resumed(o)
  /\ IF o = "reject"
       THEN turnUnlocked(t, FALSE, ctxState)
       ELSE /\ turn' = [turn EXCEPT ![t].pc = "uTone"]
            /\ UNCHANGED <<playbackVars, chains>>
  /\ UNCHANGED <<rephrase, msgVars, loadVars, shadowVars, recVars, ttsVars, prefetch,
                 gesture, manual, speak, starter, stopper, histVars>>

TurnUnlockTone(t) ==
  /\ Committed
  /\ turn[t].pc = "uTone"
  /\ CanStartSource
  /\ turnUnlocked(t, ctxState = "running", ctxState)
  /\ UNCHANGED <<rephrase, ctxState, msgVars, loadVars, shadowVars, recVars, ttsVars,
                 prefetch, gesture, manual, speak, starter, stopper,
                 histVars>>

turnPlayFinish(t) ==
  LET f == playMessageAudioFinish(PB, ctxState, BotId(t), TRUE)
      r == turnPlayed(f.s, f.played, t) IN
  /\ SetPB(r.s)
  /\ turn' = [turn EXCEPT ![t].pc = "done", ![t].ret = Ret(f.played)]
  /\ Spawn(r.chain)

TurnPlayResume(t, o) ==
  /\ Committed
  /\ turn[t].pc = "pResume"
  /\ CanStartSource
  /\ Resumed(o)
  /\ IF o = "reject"
       THEN turnPlayFinish(t)
       ELSE /\ turn' = [turn EXCEPT ![t].pc = "pSleep"]
            /\ UNCHANGED <<playbackVars, chains>>
  /\ UNCHANGED <<rephrase, msgVars, loadVars, shadowVars, recVars, ttsVars, prefetch,
                 gesture, manual, speak, starter, stopper, histVars>>

TurnPlaySleep(t) ==
  /\ Committed
  /\ turn[t].pc = "pSleep"
  /\ CanStartSource
  /\ turnPlayFinish(t)
  /\ UNCHANGED <<rephrase, ctxState, msgVars, loadVars, shadowVars, recVars, ttsVars,
                 prefetch, gesture, manual, speak, starter, stopper,
                 histVars>>

\* utterance.onend / onerror of the on-device fallback.
FallbackEnd(t) ==
  /\ Committed
  /\ turn[t].pc = "fallback"
  /\ currentlyPlayingId' = Null
  /\ turn' = [turn EXCEPT ![t].pc = "done"]
  /\ UNCHANGED <<rephrase, ctxState, sources, sourceNodeRef, pendingQueue,
                 audioUnlockRequired, msgVars, loadVars, shadowVars, recVars,
                 ttsVars, prefetch, chains, gesture, manual, speak, starter,
                 stopper, histVars>>

\* ----------------------------------------------------- prefetchVocabAudio
PrefetchOk(t) ==
  /\ Committed
  /\ prefetch[t] = "req"
  /\ prefetch' = [prefetch EXCEPT ![t] = "none"]
  /\ vocabCache' = vocabCache \cup {turn[t].vocab}
  /\ UNCHANGED <<rephrase, ctxState, playbackVars, msgVars, loadVars, shadowVars,
                 recVars, ttsQuotaExceeded, turn, chains, gesture, manual,
                 speak, starter, stopper, histVars>>

PrefetchFail(err) ==
  \E t \in Turns :
    /\ Committed
    /\ prefetch[t] = "req"
    /\ prefetch' = [prefetch EXCEPT ![t] = "none"]
    /\ ttsQuotaExceeded' = (ttsQuotaExceeded \/ isQuotaError(err))
    /\ UNCHANGED <<rephrase, ctxState, playbackVars, msgVars, loadVars, shadowVars,
                   recVars, vocabCache, turn, chains, gesture, manual, speak,
                   starter, stopper, histVars>>

\* -------------------------------------------- handleSpeakVocab / playBuffer
playBufferFinish(s, ctx) ==
  IF ctx # "running" THEN s ELSE startSource(s, Null, "vocab")

\* playBuffer(buffer) inside handleSpeakVocab, up to its await or return;
\* hit tells whether the buffer came from the cache.
speakPlay(term, hit) ==
  LET s1 == stopAudioPlayback(PB) IN
  IF ctxState = "suspended"
    THEN /\ SetPB(s1)
         /\ speak' = [pc |-> "bResume", term |-> term, hit |-> hit]
    ELSE /\ SetPB(playBufferFinish(s1, ctxState))
         /\ speak' = IdleSpeak

Rendered(term) ==
  \E i \in 1..Len(messagesRef) : messagesRef[i].vocab = term

\* A variant of SpeakClick that requests the synthesis without looking
\* into the cache: C34_CacheGrowsAndServes tells the two apart.
SpeakClickNoCache(term) ==
  /\ Committed
  /\ inputs < scope.inputs
  /\ inputs' = inputs + 1
  /\ speak.pc = "idle"
  /\ CanStartSource
  /\ Rendered(term)
  /\ speak' = [pc |-> "req", term |-> term]
  /\ lateRequest' =
       lateRequest \cup Request("speak", 0, FALSE, messages,
                                isLoading, ttsQuotaExceeded).late
  /\ UNCHANGED playbackVars
  /\ UNCHANGED <<call, rephrase, ctxState, msgVars, loadVars, shadowVars, recVars, ttsVars,
                 turn, prefetch, chains, gesture, manual, starter, stopper,
                 earlyRequest, fallbackLog, lastGiveUp,
                 scope, alerts, recordings>>

\* onSpeakVocab(term): play the cached buffer, or request the synthesis.
SpeakClick(term) ==
  /\ Committed
  /\ inputs < scope.inputs
  /\ inputs' = inputs + 1
  /\ speak.pc = "idle"
  /\ CanStartSource
  /\ Rendered(term)
  /\ IF term \in vocabCache
       THEN speakPlay(term, TRUE) /\ UNCHANGED lateRequest
       ELSE /\ speak' = [pc |-> "req", term |-> term]
            /\ lateRequest' =
                 lateRequest \cup Request("speak", 0, FALSE, messages,
                                          isLoading, ttsQuotaExceeded).late
            /\ UNCHANGED playbackVars
  /\ UNCHANGED <<call, rephrase, ctxState, msgVars, loadVars, shadowVars, recVars, ttsVars,
                 turn, prefetch, chains, gesture, manual, starter, stopper,
                 earlyRequest, fallbackLog, lastGiveUp,
                 scope, alerts, recordings>>

SpeakOk ==
  /\ Committed
  /\ speak.pc = "req"
  /\ CanStartSource
  /\ vocabCache' = vocabCache \cup {speak.term}
  /\ speakPlay(speak.term, FALSE)
  /\ UNCHANGED <<rephrase, ctxState, msgVars, loadVars, shadowVars, recVars,
                 ttsQuotaExceeded, turn, prefetch, chains, gesture, manual,
                 starter, stopper, histVars>>

SpeakFail ==
  /\ Committed
  /\ speak.pc = "req"
  /\ speak' = IdleSpeak
  /\ UNCHANGED <<rephrase, ctxState, playbackVars, msgVars, loadVars, shadowVars,
                 recVars, ttsVars, turn, prefetch, chains, gesture, manual,
                 starter, stopper, histVars>>

\* playBuffer's `await ctx.resume()` settles; a rejection is caught by
\* handleSpeakVocab.
SpeakResume(o) ==
  /\ Committed
  /\ speak.pc = "bResume"
  /\ CanStartSource
  /\ Resumed(o)
  /\ IF o = "reject" THEN UNCHANGED playbackVars
     ELSE SetPB(playBufferFinish(PB, CtxAfter(o)))
  /\ speak' = IdleSpeak
  /\ UNCHANGED <<rephrase, msgVars, loadVars, shadowVars, recVars, ttsVars, turn,
                 prefetch, chains, gesture, manual, starter, stopper,
                 histVars>>

\* ------------------------------------------------------------------- Next
RenderNext == Render

RecordingNext ==
  \/ StartClick
  \/ \E i \in StarterIds, o \in ResumeOutcomes : StarterResume(i, o)
  \/ \E i \in StarterIds : StarterTone(i)
  \/ \E i \in StarterIds : GumOk(i)
  \/ StopClick
  \/ \E o \in ResumeOutcomes : StopperResume(o)
  \/ StopperTone
  \/ \E r \in recorders, b \in BOOLEAN : DataAvailable(r, b)
  \/ \E r \in recorders : RecorderOnStop(r)

ReplyNext ==
  \/ \E t \in Turns, text \in Texts, v \in {Null} \cup Terms :
       AnalysisOk(t, text, v)
  \/ \E t \in Turns : TtsOk(t)
  \/ \E t \in Turns, o \in ResumeOutcomes : TurnUnlockResume(t, o)
  \/ \E t \in Turns : TurnUnlockTone(t)
  \/ \E t \in Turns, o \in ResumeOutcomes : TurnPlayResume(t, o)
  \/ \E t \in Turns : TurnPlaySleep(t)
  \/ \E x \in sources : SourceEnded(x)

FailureNext ==
  \/ \E i \in StarterIds : GumFail(i)
  \/ \E t \in Turns : AnalysisFail(t)
  \/ \E t \in Turns, err \in RemoteErrors : TtsFail(t, err)
  \/ \E t \in Turns : BackoffDone(t)
  \/ \E t \in Turns : DecodeFail(t)
  \/ \E t \in Turns : FallbackEnd(t)

ChainNext ==
  \/ \E i \in ChainIds : ChainTimerFire(i)
  \/ \E i \in ChainIds, o \in ResumeOutcomes : ChainPlayResume(i, o)
  \/ \E i \in ChainIds : ChainPlaySleep(i)

GestureNext ==
  \/ GestureStart
  \/ \E o \in ResumeOutcomes : GestureResume(o)
  \/ GestureTone

ManualNext ==
  \/ \E m \in ManualIds, t \in Turns : ManualPlay(m, BotId(t))
  \/ \E m \in ManualIds, o \in ResumeOutcomes : ManualPlayResume(m, o)
  \/ \E m \in ManualIds : ManualPlaySleep(m)
  \/ ManualStop

\* --------------------------------------------------------- handleRephrase
\* crypto.randomUUID(): an id no message of the list has.
RephraseId(ms) ==
  CHOOSE id \in (MaxTurns + 1)..(MaxTurns + MaxInputs + 1) : ~HasMsg(ms, id)

\* The bot message of a rephrasing: created without an audio buffer.
RephraseMsg(id, text, v) ==
  [id |-> id, sender |-> "bot", audioBuffer |-> FALSE, text |-> text,
   vocab |-> v]

\* A rephrase button of bot message id: handleRephrase up to the await of
\* the rephrase request.
RephraseClick(id) ==
  /\ Committed
  /\ inputs < scope.inputs
  /\ inputs' = inputs + 1
  /\ rephrase.pc = "idle"
  /\ \E i \in 1..Len(messages) :
       messages[i].id = id /\ messages[i].sender = "bot"
  /\ ~isLoading
  /\ isLoading' = TRUE
  /\ rephrase' = [pc |-> "req", msg |-> id]
  /\ UNCHANGED <<call, ctxState, playbackVars, msgVars, isLoadingRef, shadowVars,
                 recVars, ttsVars, turn, prefetch, chains, gesture, manual,
                 speak, starter, stopper, lateRequest, earlyRequest,
                 fallbackLog, lastGiveUp, scope, alerts, recordings>>

\* A variant of RephraseOk that rewrites the message it rephrases instead
\* of appending a new one: C15_MessagesImmutable tells the two apart.
RephraseOkInPlace(text, v) ==
  /\ Committed
  /\ rephrase.pc = "req"
  /\ messages' = [i \in 1..Len(messages) |->
                    IF messages[i].id = rephrase.msg
                      THEN RephraseMsg(rephrase.msg, text, v)
                      ELSE messages[i]]
  /\ isLoading' = FALSE
  /\ rephrase' = IdleRephrase
  /\ UNCHANGED <<ctxState, playbackVars, messagesRef, isLoadingRef,
                 shadowVars, recVars, ttsVars, turn, prefetch, chains,
                 gesture, manual, speak, starter, stopper, histVars>>

\* rephraseText resolved: append the new bot message, then the finally
\* block.
RephraseOk(text, v) ==
  /\ Committed
  /\ rephrase.pc = "req"
  /\ messages' = Append(messages, RephraseMsg(RephraseId(messages), text, v))
  /\ isLoading' = FALSE
  /\ rephrase' = IdleRephrase
  /\ UNCHANGED <<ctxState, playbackVars, messagesRef, isLoadingRef,
                 shadowVars, recVars, ttsVars, turn, prefetch, chains,
                 gesture, manual, speak, starter, stopper, histVars>>

\* A variant of RephraseFail without the finally block:
\* C35_RephraseFrame tells the two apart.
RephraseFailNoFinally ==
  /\ Committed
  /\ rephrase.pc = "req"
  /\ rephrase' = IdleRephrase
  /\ UNCHANGED <<ctxState, playbackVars, msgVars, loadVars, shadowVars,
                 recVars, ttsVars, turn, prefetch, chains, gesture, manual,
                 speak, starter, stopper, histVars>>

\* The import or rephraseText rejected: the catch, then the finally block.
RephraseFail ==
  /\ Committed
  /\ rephrase.pc = "req"
  /\ isLoading' = FALSE
  /\ rephrase' = IdleRephrase
  /\ UNCHANGED <<ctxState, playbackVars, msgVars, isLoadingRef, shadowVars,
                 recVars, ttsVars, turn, prefetch, chains, gesture, manual,
                 speak, starter, stopper, histVars>>

RephraseNext ==
  \/ \E id \in 1..(MaxTurns + MaxInputs) : RephraseClick(id)
  \/ \E text \in Texts, v \in {Null} \cup Terms : RephraseOk(text, v)
  \/ RephraseFail

SpeakNext ==
  \/ \E term \in Terms : SpeakClick(term)
  \/ SpeakOk
  \/ SpeakFail
  \/ \E o \in ResumeOutcomes : SpeakResume(o)

\* One conversation turn with every handler of the pipeline.
Next ==
  \/ RenderNext
  \/ RecordingNext
  \/ ReplyNext
  \/ FailureNext
  \/ ChainNext
  \/ GestureNext
  \/ ManualNext
  \/ SpeakNext

Spec == Init /\ [][Next]_vars

\* Two overlapping turns of handleRecordingComplete, failures included.
InitTurns == Mounted([turns |-> MaxTurns, inputs |-> 0, retry |-> 0,
                 starts |-> 1, shadow |-> FALSE])
NextTurns ==
  \/ RenderNext
  \/ RecordingNext
  \/ ReplyNext
  \/ FailureNext

SpecTurns == InitTurns /\ [][NextTurns]_vars

\* Two overlapping turns whose replies are synthesised, and the retry chains
\* that drain the pending queue.
InitDrain == Mounted([turns |-> MaxTurns, inputs |-> 0,
                      retry |-> MaxRetryDepth,
                 starts |-> 1, shadow |-> FALSE])
NextDrain ==
  \/ RenderNext
  \/ RecordingNext
  \/ ReplyNext
  \/ ChainNext

SpecDrain == InitDrain /\ [][NextDrain]_vars

\* One turn and one gesture, no request failures, with the retry timers
\* running up to the ceiling.
InitRetry == Mounted([turns |-> MaxTurns - 1, inputs |-> 1,
                      retry |-> RetryCeiling + 1,
                 starts |-> 1, shadow |-> FALSE])
NextRetry ==
  \/ RenderNext
  \/ RecordingNext
  \/ ReplyNext
  \/ ChainNext
  \/ GestureNext

SpecRetry == InitRetry /\ [][NextRetry]_vars

\* One turn with request failures, and the rephrase buttons of the
\* messages.
InitRephrase == Mounted([turns |-> MaxTurns - 1, inputs |-> MaxInputs,
                         retry |-> 0,
                 starts |-> 1, shadow |-> FALSE])
NextRephrase ==
  \/ RenderNext
  \/ RecordingNext
  \/ ReplyNext
  \/ FailureNext
  \/ RephraseNext

SpecRephrase == InitRephrase /\ [][NextRephrase]_vars

\* Shadow mode switched on in the stored settings: two startRecording
\* invocations that may overlap, the shadow-start timer, the stop button of
\* the playing message and the shadow-mode toggle.
InitShadow == Mounted([turns |-> MaxTurns + 1, inputs |-> 1, retry |-> 0,
                       starts |-> MaxStarters, shadow |-> TRUE])
ShadowNext ==
  \/ ShadowTimerFire
  \/ ChangeShadowMode
  \/ ManualStop

NextShadow ==
  \/ RenderNext
  \/ RecordingNext
  \/ ReplyNext
  \/ ShadowNext

SpecShadow == InitShadow /\ [][NextShadow]_vars

\* The cleanup of the mount effect (lines 73-78) when the component
\* unmounts: close the audio context, clear the volume-polling interval.
\* Nothing else is cancelled.
Unmount ==
  /\ Committed
  /\ ctxState' = "closed"
  /\ vadIntervalRef' = FALSE
  /\ UNCHANGED <<playbackVars, msgVars, loadVars, shadowVars, isRecording,
                 isRecordingRef, mediaRecorderRef, recorders, audioChunks,
                 vadNodes, ttsVars, procVars, histVars>>

\* Two turns in shadow mode with their retry chains, followed up to the
\* teardown of the component.
InitTeardown == Mounted([turns |-> MaxTurns, inputs |-> 0,
                         retry |-> MaxRetryDepth,
                         starts |-> 1, shadow |-> TRUE])
NextTeardown ==
  \/ RenderNext
  \/ RecordingNext
  \/ ReplyNext
  \/ ChainNext
  \/ ShadowTimerFire
  \/ Unmount

SpecTeardown == InitTeardown /\ [][NextTeardown]_vars

\* Two turns whose replies carry vocabulary: the prefetch of the first
\* term, and one click on a vocabulary term.
InitVocab == Mounted([turns |-> MaxTurns, inputs |-> 1, retry |-> 0,
                      starts |-> 1, shadow |-> FALSE])
PrefetchNext ==
  \/ \E t \in Turns : PrefetchOk(t)
  \/ \E err \in RemoteErrors : PrefetchFail(err)

NextVocab ==
  \/ RenderNext
  \/ RecordingNext
  \/ ReplyNext
  \/ PrefetchNext
  \/ SpeakNext

SpecVocab == InitVocab /\ [][NextVocab]_vars

\* ------------------------------------------------ parseRepeatRequest
\* Text is a sequence of characters.
WhiteSpace == {" ", "\n", "\t"}
Least(S) == CHOOSE i \in S : \A j \in S : i <= j
Greatest(S) == CHOOSE i \in S : \A j \in S : j <= i

\* String.prototype.trim, startsWith and slice(n).
trim(text) ==
  LET ink == {i \in 1..Len(text) : text[i] \notin WhiteSpace} IN
  IF ink = {} THEN <<>> ELSE SubSeq(text, Least(ink), Greatest(ink))
startsWith(text, prefix) ==
  Len(text) >= Len(prefix) /\ SubSeq(text, 1, Len(prefix)) = prefix
slice(text, n) == SubSeq(text, n + 1, Len(text))

normalizeRepeatInput(text) == trim(toLowerCase(text))

\* The first phrases of the list of lines 242-272 that are a prefix of one
\* another or share no prefix: 'repeat', 'repeat it', 'again'.
repeatPhrases ==
  <<<<"r", "e", "p", "e", "a", "t">>,
    <<"r", "e", "p", "e", "a", "t", " ", "i", "t">>,
    <<"a", "g", "a", "i", "n">>>>

\* The result of parseRepeatRequest: null, or the text to say ('' for a
\* bare repeat phrase).
NullRequest == [null |-> TRUE, text |-> <<>>]
RequestOf(text) == [null |-> FALSE, text |-> text]

\* A variant of parseRepeatRequest that tries the prefixes before the
\* exact match: C16_RepeatSaysPreviousReply tells the two apart.
parseRepeatRequestPrefixFirst(text) ==
  LET normalized == normalizeRepeatInput(text)
      hits == {i \in 1..Len(repeatPhrases) :
                 startsWith(normalized, repeatPhrases[i] \o <<" ">>)} IN
  IF normalized = <<>> THEN NullRequest
  ELSE IF hits # {}
    THEN RequestOf(trim(slice(normalized, Len(repeatPhrases[Least(hits)]))))
  ELSE IF \E i \in 1..Len(repeatPhrases) : normalized = repeatPhrases[i]
    THEN RequestOf(<<>>)
  ELSE NullRequest

parseRepeatRequest(text) ==
  LET normalized == normalizeRepeatInput(text)
      hits == {i \in 1..Len(repeatPhrases) :
                 startsWith(normalized, repeatPhrases[i] \o <<" ">>)} IN
  IF normalized = <<>> THEN NullRequest
  ELSE IF \E i \in 1..Len(repeatPhrases) : normalized = repeatPhrases[i]
    THEN RequestOf(<<>>)
  ELSE IF hits # {}
    THEN RequestOf(trim(slice(normalized, Len(repeatPhrases[Least(hits)]))))
  ELSE NullRequest

\* Lines 647-676: the reply that handleRecordingComplete goes on with, for
\* the analysis result responseData and the list ms of messagesRef.current.
Undefined == "undefined"
HasContent(m) == m.sender = "bot" /\ "content" \in DOMAIN m
repeatSubstitution(responseData, ms) ==
  LET repeatRequest == parseRepeatRequest(responseData.userTranscript)
      requestedText == trim(repeatRequest.text)
      bots == {i \in 1..Len(ms) : HasContent(ms[i])} IN
  IF repeatRequest.null THEN responseData
  ELSE IF requestedText # <<>>
    THEN [responseData EXCEPT !.targetText = requestedText,
                              !.englishTranslation = requestedText,
                              !.transliteration = requestedText,
                              !.vocabulary = <<>>,
                              !.culturalNotes = <<>>,
                              !.feedback = Undefined,
                              !.systemCommand = Undefined]
  ELSE IF bots = {} THEN responseData
  ELSE [ms[Greatest(bots)].content EXCEPT
          !.userTranscript = responseData.userTranscript,
          !.userTransliteration = responseData.userTransliteration,
          !.sourceLanguage = responseData.sourceLanguage,
          !.vocabulary = <<>>,
          !.culturalNotes = <<>>,
          !.feedback = Undefined,
          !.systemCommand = Undefined]

\* What the user may have said, as the analysis transcribes it.
Transcripts ==
  {<<"R", "e", "p", "e", "a", "t">>,
   <<" ", "a", "g", "a", "i", "n", " ">>,
   <<"A", "G", "A", "I", "N">>,
   <<"r", "e", "p", "e", "a", "t", " ", "i", "t">>,
   <<"R", "e", "p", "e", "a", "t", " ", "I", "t", "\n">>,
   <<"r", "e", "p", "e", "a", "t", " ", "h", "i">>,
   <<"r", "e", "p", "e", "a", "t", " ", "i", "t", " ", "h", "i">>,
   <<"a", "g", "a", "i", "n", " ", " ", "h", "i", " ">>,
   <<>>,
   <<" ">>,
   <<"h", "i">>,
   <<"r", "e", "p", "e", "a", "t", "s">>,
   <<"h", "i", " ", "a", "g", "a", "i", "n">>,
   <<"r", "e", "p", "e", "a", "t", " ">>}

\* An analysis result with the given transcript; rich results carry
\* vocabulary, notes, feedback and a system command.
Response(transcript, target, rich, style) ==
  [userTranscript |-> transcript,
   userTransliteration |-> <<"u">> \o target,
   sourceLanguage |-> <<"s">> \o target,
   rephraseStyle |-> style,
   targetText |-> target,
   transliteration |-> <<"l">> \o target,
   englishTranslation |-> <<"e">> \o target,
   vocabulary |-> IF rich THEN <<"term">> ELSE <<>>,
   culturalNotes |-> IF rich THEN <<"note">> ELSE <<>>,
   feedback |-> IF rich THEN "feedback" ELSE Undefined,
   systemCommand |-> IF rich THEN "command" ELSE Undefined]

\* Message lists as handleRecordingComplete and handleRephrase build them:
\* (user, bot) pairs and rephrasings.
UserEntry == [sender |-> "user"]
BotEntry(target, rich, style) ==
  [sender |-> "bot", content |-> Response(<<"h", "i">>, target, rich, style)]
MessageLists ==
  {<<>>,
   <<UserEntry, BotEntry(<<"1">>, TRUE, Undefined)>>,
   <<UserEntry, BotEntry(<<"1">>, TRUE, Undefined),
     BotEntry(<<"2">>, FALSE, "casual")>>,
   <<UserEntry, BotEntry(<<"1">>, FALSE, Undefined),
     UserEntry, BotEntry(<<"2">>, TRUE, Undefined)>>}

RepeatCalls ==
  {[fn |-> "repeat", pc |-> "called",
    responseData |-> Response(tr, <<"3">>, rich, Undefined),
    messages |-> ms,
    result |-> Response(tr, <<"3">>, rich, Undefined)] :
     tr \in Transcripts, rich \in BOOLEAN, ms \in MessageLists}

\* The analysis resolved with call.responseData while messagesRef.current
\* was call.messages: compute the reply to append.
RepeatSubstitute ==
  /\ call.fn = "repeat" /\ call.pc = "called"
  /\ call' = [call EXCEPT
                !.pc = "returned",
                !.result = repeatSubstitution(call.responseData,
                                              call.messages)]
  /\ UNCHANGED <<ctxState, playbackVars, msgVars, loadVars, shadowVars,
                 recVars, ttsVars, procVars, lateRequest, earlyRequest,
                 fallbackLog, lastGiveUp, scope, alerts, recordings, inputs>>

InitRepeat ==
  /\ AppMounted([turns |-> 0, inputs |-> 0, retry |-> 0,
                 starts |-> 1, shadow |-> FALSE])
  /\ call \in RepeatCalls
NextRepeat == RepeatSubstitute
SpecRepeat == InitRepeat /\ [][NextRepeat]_vars

\* ---------------------------------------------------------------- setupVAD
\* Numbers of the volume meter are fractions n / d with d > 0.
Frac(n, d) == [n |-> n, d |-> d]
FracLess(a, b) == a.n * b.d < b.n * a.d
FracMinus(a, b) == Frac(a.n * b.d - b.n * a.d, a.d * b.d)
FracOver(a, k) == Frac(a.n, a.d * k)
FracMax(a, b) == IF FracLess(a, b) THEN b ELSE a
FracMin(a, b) == IF FracLess(a, b) THEN a ELSE b

CalibrationSamples == 12   \* samples < 12, samples === 12
LevelScale == 100          \* adjusted / 100

\* noiseFloorRef.current is null, or a number.
NullFloor == [null |-> TRUE, value |-> Frac(0, 1)]
FloorOf(x) == [null |-> FALSE, value |-> x]
\* noiseFloorRef.current as a condition: neither null nor 0.
Truthy(ref) == ~ref.null /\ ref.value.n # 0

\* The byte averages the analyser may deliver.
Averages == {5, 250}

\* One callback of the interval of lines 560-586 with the analyser's
\* average; m is the meter: the closure's samples and baselineSum, the
\* closure's settings.noiseGuard, noiseFloorRef.current and the level given
\* to setVolumeLevel.
vadTick(m, average) ==
  LET counting == m.noiseGuard /\ m.samples < CalibrationSamples
      baselineSum1 == IF counting THEN m.baselineSum + average
                      ELSE m.baselineSum
      samples1 == IF counting THEN m.samples + 1 ELSE m.samples
      ref1 == IF counting /\ samples1 = CalibrationSamples
                THEN FloorOf(Frac(baselineSum1, samples1))
                ELSE m.noiseFloorRef
      floor == IF m.noiseGuard /\ Truthy(ref1) THEN ref1.value
               ELSE Frac(0, 1)
      adjusted == FracMax(Frac(0, 1), FracMinus(Frac(average, 1), floor)) IN
  [m EXCEPT !.samples = samples1,
            !.baselineSum = baselineSum1,
            !.noiseFloorRef = ref1,
            !.volumeLevel = FracMin(FracOver(adjusted, LevelScale),
                                    Frac(1, 1)),
            !.heard = Append(@, average)]

\* A variant of vadRestart without line 508: C17_NoiseFloor tells the two
\* apart.
vadRestartKeepsFloor(m) ==
  [m EXCEPT !.samples = 0, !.baselineSum = 0,
            !.volumeLevel = Frac(0, 1),
            !.heard = <<>>,
            !.session = @ + 1]

\* stopRecording (lines 589-604) followed by the next startRecording and
\* its setupVAD: the level is set to 0, the floor to null, and the new
\* closure counts from 0.
vadRestart(m) ==
  [m EXCEPT !.samples = 0, !.baselineSum = 0,
            !.noiseFloorRef = NullFloor,
            !.volumeLevel = Frac(0, 1),
            !.heard = <<>>,
            !.session = @ + 1]

\* The meter of a first recording that just started; heard is the history
\* of the averages delivered during the recording.
VadCalls ==
  {[fn |-> "vad", noiseGuard |-> g, samples |-> 0, baselineSum |-> 0,
    noiseFloorRef |-> NullFloor, volumeLevel |-> Frac(0, 1),
    heard |-> <<>>, session |-> 1] : g \in BOOLEAN}

VadTick(average) ==
  /\ call.fn = "vad"
  /\ Len(call.heard) < MaxTicks
  /\ call' = vadTick(call, average)
  /\ UNCHANGED <<ctxState, playbackVars, msgVars, loadVars, shadowVars,
                 recVars, ttsVars, procVars, lateRequest, earlyRequest,
                 fallbackLog, lastGiveUp, scope, alerts, recordings, inputs>>

VadRestart ==
  /\ call.fn = "vad"
  /\ call.session < MaxSessions
  /\ call' = vadRestart(call)
  /\ UNCHANGED <<ctxState, playbackVars, msgVars, loadVars, shadowVars,
                 recVars, ttsVars, procVars, lateRequest, earlyRequest,
                 fallbackLog, lastGiveUp, scope, alerts, recordings, inputs>>

InitVad ==
  /\ AppMounted([turns |-> 0, inputs |-> 0, retry |-> 0,
                 starts |-> 1, shadow |-> FALSE])
  /\ call \in VadCalls
NextVad ==
  \/ \E average \in Averages : VadTick(average)
  \/ VadRestart
SpecVad == InitVad /\ [][NextVad]_vars

\* ---------------------------------------------------- utils/audio.ts
\* A base64 string is a sequence of 6-bit digits, with Pad for '='.
Pad == 64
ByteModulus == 256         \* Uint8Array element
Int16Modulus == 65536      \* Int16Array element
PcmScale == 32768          \* dataInt16[i] / 32768.0
DefaultSampleRate == 24000 \* sampleRate: number = 24000

\* atob: the characters (char codes 0..255) that the digits encode, four
\* digits to three characters, a padded tail to one or two.
RECURSIVE atob(_)
atob(b64) ==
  IF Len(b64) < 4 THEN <<>>
  ELSE LET a == b64[1]
           b == b64[2]
           c == b64[3]
           d == b64[4]
           c1 == a * 4 + (b \div 16)
           c2 == (b % 16) * 16 + (IF c = Pad THEN 0 ELSE c \div 4)
           c3 == (IF c = Pad THEN 0 ELSE (c % 4) * 64)
                   + (IF d = Pad THEN 0 ELSE d) IN
       IF c = Pad THEN <<c1>>
       ELSE IF d = Pad THEN <<c1, c2>>
       ELSE <<c1, c2, c3>> \o atob(SubSeq(b64, 5, Len(b64)))

\* base64ToUint8Array: bytes[i] = binaryString.charCodeAt(i).
base64ToUint8Array(base64) ==
  LET binaryString == atob(base64) IN
  [i \in 1..Len(binaryString) |-> binaryString[i] % ByteModulus]

\* new Int16Array(buffer) on a little-endian platform: element i is the
\* two's complement number of bytes 2i-1 (low) and 2i (high).
Int16At(bytes, i) ==
  LET u == bytes[2 * i - 1] + ByteModulus * bytes[2 * i] IN
  IF u >= Int16Modulus \div 2 THEN u - Int16Modulus ELSE u

\* What decodeAudioData returns: the exception it threw, or the buffer.
Thrown(name) == [threw |-> name, numberOfChannels |-> 0, length |-> 0,
                 sampleRate |-> 0, channelData |-> <<>>]

\* A variant of decodeAudioData that divides by 32767:
\* C18_DecodePcm tells the two apart.
decodeAudioDataBy32767(base64String) ==
  LET audioBytes == base64ToUint8Array(base64String)
      frameCount == Len(audioBytes) \div 2 IN
  IF Len(audioBytes) % 2 # 0 THEN Thrown("RangeError")
  ELSE IF frameCount = 0 THEN Thrown("NotSupportedError")
  ELSE [threw |-> "none", numberOfChannels |-> 1, length |-> frameCount,
        sampleRate |-> DefaultSampleRate,
        channelData |-> [i \in 1..frameCount |->
                           Frac(Int16At(audioBytes, i), PcmScale - 1)]]

\* decodeAudioData(base64String, audioContext): the Int16Array constructor
\* throws on an odd byte length, createBuffer on a length of zero frames.
decodeAudioData(base64String) ==
  LET audioBytes == base64ToUint8Array(base64String)
      frameCount == Len(audioBytes) \div 2 IN
  IF Len(audioBytes) % 2 # 0 THEN Thrown("RangeError")
  ELSE IF frameCount = 0 THEN Thrown("NotSupportedError")
  ELSE [threw |-> "none", numberOfChannels |-> 1, length |-> frameCount,
        sampleRate |-> DefaultSampleRate,
        channelData |-> [i \in 1..frameCount |->
                           Frac(Int16At(audioBytes, i), PcmScale)]]

\* The service's side: 16-bit signed samples written low byte first, then
\* base64-encoded.
Int16Values == {0 - 32768, 0 - 1, 0, 1, 32767}
RECURSIVE PcmBytes(_)
PcmBytes(pcm) ==
  IF pcm = <<>> THEN <<>>
  ELSE LET u == Head(pcm) % Int16Modulus IN
       <<u % ByteModulus, u \div ByteModulus>> \o PcmBytes(Tail(pcm))
RECURSIVE btoa(_)
btoa(bytes) ==
  IF bytes = <<>> THEN <<>>
  ELSE IF Len(bytes) = 1
    THEN <<bytes[1] \div 4, (bytes[1] % 4) * 16, Pad, Pad>>
  ELSE IF Len(bytes) = 2
    THEN <<bytes[1] \div 4, (bytes[1] % 4) * 16 + (bytes[2] \div 16),
           (bytes[2] % 16) * 4, Pad>>
  ELSE <<bytes[1] \div 4, (bytes[1] % 4) * 16 + (bytes[2] \div 16),
         (bytes[2] % 16) * 4 + (bytes[3] \div 64), bytes[3] % 64>>
         \o btoa(SubSeq(bytes, 4, Len(bytes)))

PcmStreams ==
  UNION {[1..n -> Int16Values] : n \in 0..MaxFrames}

\* The clips the service may deliver: whole samples, or a stream cut in
\* the middle of a sample (stray holds the odd byte).
DecodeCalls ==
  {[fn |-> "decode", pc |-> "called", pcm |-> pcm, stray |-> stray,
    base64String |-> btoa(PcmBytes(pcm) \o stray),
    result |-> Thrown("none")] :
     pcm \in PcmStreams, stray \in {<<>>, <<255>>}}

\* await decodeAudioData(audioBase64, ctx) of lines 462, 719 and 900.
DecodeReturn ==
  /\ call.fn = "decode" /\ call.pc = "called"
  /\ call' = [call EXCEPT !.pc = "returned",
                          !.result = decodeAudioData(call.base64String)]
  /\ UNCHANGED <<ctxState, playbackVars, msgVars, loadVars, shadowVars,
                 recVars, ttsVars, procVars, lateRequest, earlyRequest,
                 fallbackLog, lastGiveUp, scope, alerts, recordings, inputs>>

InitDecode ==
  /\ AppMounted([turns |-> 0, inputs |-> 0, retry |-> 0,
                 starts |-> 1, shadow |-> FALSE])
  /\ call \in DecodeCalls
NextDecode == DecodeReturn
SpecDecode == InitDecode /\ [][NextDecode]_vars

\* ------------------------------------------------------- settings load
\* A JSON literal is its type and its text; a JSON object is a function
\* from keys to literals.  A JSON text is a sequence of tokens.
Lit(type, text) == [type |-> type, text |-> text]
JsonNull == Lit("null", "null")
Tok(t) == [t |-> t, v |-> JsonNull]
LitTok(v) == [t |-> "lit", v |-> v]
EmptyObject == [k \in {} |-> JsonNull]

defaultSettings ==
  [targetLanguage |-> Lit("string", "Arabic"),
   voiceName |-> Lit("string", "Zephyr"),
   speechSpeed |-> Lit("number", "1.0"),
   apiKey |-> Lit("string", ""),
   userName |-> Lit("string", ""),
   goal |-> Lit("string", "Casual"),
   nativeMode |-> Lit("boolean", "false"),
   paceMatch |-> Lit("boolean", "false"),
   shadowMode |-> Lit("boolean", "false"),
   micCues |-> Lit("boolean", "true"),
   noiseGuard |-> Lit("boolean", "true"),
   accent |-> Lit("string", "Neutral")]

\* JSON.parse of a text that is a literal or an object of literals: ok is
\* false for the SyntaxError.
SyntaxError == [ok |-> FALSE, object |-> FALSE, lit |-> JsonNull,
                fields |-> EmptyObject]
MembersOk(inner) ==
  \/ inner = <<>>
  \/ /\ Len(inner) % 4 = 3
     /\ \A i \in 1..Len(inner) :
          CASE i % 4 = 1 -> inner[i].t = "lit" /\ inner[i].v.type = "string"
            [] i % 4 = 2 -> inner[i].t = ":"
            [] i % 4 = 3 -> inner[i].t = "lit"
            [] OTHER -> inner[i].t = ","
JSONparse(text) ==
  IF Len(text) = 1 /\ text[1].t = "lit"
    THEN [ok |-> TRUE, object |-> FALSE, lit |-> text[1].v,
          fields |-> EmptyObject]
  ELSE IF Len(text) >= 2 /\ text[1].t = "{" /\ text[Len(text)].t = "}"
          /\ MembersOk(SubSeq(text, 2, Len(text) - 1))
    THEN LET inner == SubSeq(text, 2, Len(text) - 1)
             at == {i \in 1..Len(inner) : i % 4 = 1}
             keys == {inner[i].v.text : i \in at} IN
         [ok |-> TRUE, object |-> TRUE, lit |-> JsonNull,
          fields |-> [k \in keys |->
                        inner[Greatest({i \in at : inner[i].v.text = k})
                              + 2].v]]
  ELSE SyntaxError

\* { ...defaultSettings, ...parsed }: the own properties of parsed, which
\* null, a number and a boolean do not have.
Spread(defaults, parsed) ==
  LET own == IF parsed.object THEN parsed.fields ELSE EmptyObject IN
  [k \in DOMAIN defaults \cup DOMAIN own |->
     IF k \in DOMAIN own THEN own[k] ELSE defaults[k]]

\* localStorage.getItem('alRafiqSettings'): it throws, or returns null or
\* the stored text.
NoItem == [threw |-> FALSE, null |-> TRUE, text |-> <<>>]
Item(text) == [threw |-> FALSE, null |-> FALSE, text |-> text]
Blocked == [threw |-> TRUE, null |-> TRUE, text |-> <<>>]

\* The initializer of the settings state, lines 29-38.
loadSettings(stored) ==
  IF stored.threw THEN defaultSettings
  ELSE IF stored.null \/ stored.text = <<>> THEN defaultSettings
  ELSE LET parsed == JSONparse(stored.text) IN
       IF ~parsed.ok THEN defaultSettings
       ELSE Spread(defaultSettings, parsed)

\* What storage may hold.  JSON.stringify of line 82 writes the fields of
\* a record in order; a field of a stored record is sound, null, or of
\* another type than the setting.
StoredFields == <<"voiceName", "noiseGuard", "apiKey">>
FieldValues(k) ==
  CASE k = "voiceName" -> {Lit("string", "Kore"), JsonNull, Lit("number", "5")}
    [] k = "noiseGuard" -> {Lit("boolean", "false"), JsonNull,
                            Lit("string", "off")}
    [] OTHER -> {Lit("string", "key"), JsonNull, Lit("number", "5")}
StoredRecords ==
  UNION {{f \in [keys -> UNION {FieldValues(k) : k \in keys}] :
            \A k \in keys : f[k] \in FieldValues(k)} :
         keys \in SUBSET {StoredFields[i] : i \in 1..Len(StoredFields)}}
RECURSIVE Members(_, _)
Members(record, order) ==
  IF order = <<>> THEN <<>>
  ELSE IF Head(order) \notin DOMAIN record THEN Members(record, Tail(order))
  ELSE LET rest == Members(record, Tail(order)) IN
       <<LitTok(Lit("string", Head(order))), Tok(":"),
         LitTok(record[Head(order)])>>
         \o (IF rest = <<>> THEN <<>> ELSE <<Tok(",")>> \o rest)
JSONstringify(record) ==
  <<Tok("{")>> \o Members(record, StoredFields) \o <<Tok("}")>>
Truncated(text) == SubSeq(text, 1, Len(text) - 1)

SettingsCalls ==
  {[fn |-> "settings", pc |-> "called", kind |-> "record", record |-> rec,
    stored |-> Item(JSONstringify(rec)), settings |-> defaultSettings] :
     rec \in StoredRecords}
  \cup
  {[fn |-> "settings", pc |-> "called", kind |-> "unparsable",
    record |-> rec, stored |-> Item(Truncated(JSONstringify(rec))),
    settings |-> defaultSettings] : rec \in StoredRecords}
  \cup
  {[fn |-> "settings", pc |-> "called", kind |-> "literal",
    record |-> EmptyObject, stored |-> Item(<<LitTok(v)>>),
    settings |-> defaultSettings] :
     v \in {JsonNull, Lit("number", "5"), Lit("boolean", "true")}}
  \cup
  {[fn |-> "settings", pc |-> "called", kind |-> "absent",
    record |-> EmptyObject, stored |-> st, settings |-> defaultSettings] :
     st \in {NoItem, Item(<<>>), Blocked}}

\* The first render: useState runs the initializer.
SettingsLoad ==
  /\ call.fn = "settings" /\ call.pc = "called"
  /\ call' = [call EXCEPT !.pc = "returned",
                          !.settings = loadSettings(call.stored)]
  /\ UNCHANGED <<ctxState, playbackVars, msgVars, loadVars, shadowVars,
                 recVars, ttsVars, procVars, lateRequest, earlyRequest,
                 fallbackLog, lastGiveUp, scope, alerts, recordings, inputs>>

InitSettings ==
  /\ AppMounted([turns |-> 0, inputs |-> 0, retry |-> 0,
                 starts |-> 1, shadow |-> FALSE])
  /\ call \in SettingsCalls
NextSettings == SettingsLoad
SpecSettings == InitSettings /\ [][NextSettings]_vars

\* ------------------------------------------------ playback rate
\* Rates are counted in tenths. The handlers are plain functions of the
\* render that created them, so each reads the settings of that render:
\* the play buttons those of the current render, handleRecordingComplete
\* (the recorder's onstop) those of the render in which startRecording ran,
\* the retry timer of stopRecording those of the render of the stop click,
\* and handleUserGesture, registered once by an effect without
\* dependencies, those of the first render.
\* The value of an absent (undefined) rate; no rate is 0.
NoRate == 0
SlowRate == 8
Speeds == {8, 10, 12}
PlayPaths == {"direct", "manual", "slow", "drainTurn", "drainStop",
              "drainGesture"}

\* rateOverride ?? msg?.playbackRateOverride ?? settings.speechSpeed
playbackRate(rateOverride, own, speechSpeed) ==
  IF rateOverride # NoRate THEN rateOverride
  ELSE IF own # NoRate THEN own
  ELSE speechSpeed

\* The third argument of the playMessageAudio call of a path, for a message
\* whose playbackRateOverride is own.
rateArgument(path, own) ==
  IF path = "direct" THEN own
  ELSE IF path = "slow" THEN SlowRate
  ELSE NoRate

\* settings.speechSpeed as the playMessageAudio of a path reads it.
closureSpeed(c, path) ==
  IF path \in {"manual", "slow"} THEN c.speechSpeed
  ELSE IF path \in {"direct", "drainTurn"} THEN c.atStart
  ELSE IF path = "drainStop" THEN c.atStop
  ELSE c.atMount

RateCalls ==
  {[fn |-> "rate", pc |-> "idle", speechSpeed |-> v, atMount |-> v,
    atStart |-> v, atStop |-> v, path |-> "manual", own |-> NoRate,
    rate |-> NoRate] : v \in Speeds}

RateFrame ==
  UNCHANGED <<ctxState, playbackVars, msgVars, loadVars, shadowVars,
              recVars, ttsVars, procVars, lateRequest, earlyRequest,
              fallbackLog, lastGiveUp, scope, alerts, recordings, inputs>>

\* setSettings: the settings modal or a SET_SPEED system command.
RateSetSpeed(v) ==
  /\ call.fn = "rate" /\ v # call.speechSpeed
  /\ call' = [call EXCEPT !.speechSpeed = v, !.pc = "idle"]
  /\ RateFrame

\* startRecording of the current render installs its onstop handler.
RateStartRecording ==
  /\ call.fn = "rate" /\ call.atStart # call.speechSpeed
  /\ call' = [call EXCEPT !.atStart = call.speechSpeed, !.pc = "idle"]
  /\ RateFrame

\* stopRecording of the current render sets its retry timer.
RateStopRecording ==
  /\ call.fn = "rate" /\ call.atStop # call.speechSpeed
  /\ call' = [call EXCEPT !.atStop = call.speechSpeed, !.pc = "idle"]
  /\ RateFrame

\* playMessageAudio on a path starts a source for a message whose own
\* override is own.
RatePlay(path, own) ==
  /\ call.fn = "rate"
  /\ call' = [call EXCEPT
                !.pc = "played", !.path = path, !.own = own,
                !.rate = playbackRate(rateArgument(path, own), own,
                                      closureSpeed(call, path))]
  /\ RateFrame

InitRate ==
  /\ AppMounted([turns |-> 0, inputs |-> 0, retry |-> 0,
                 starts |-> 1, shadow |-> FALSE])
  /\ call \in RateCalls
NextRate ==
  \/ \E v \in Speeds : RateSetSpeed(v)
  \/ RateStartRecording
  \/ RateStopRecording
  \/ \E path \in PlayPaths, own \in Speeds \cup {NoRate} :
       RatePlay(path, own)

SpecRate == InitRate /\ [][NextRate]_vars

\* ------------------------------------------------ the volume meter
\* setupVAD, the polling callback and the head of stopRecording, over the
\* refs and the objects they name. Timers and nodes are numbered by the
\* setupVAD call that made them; 0 is a null ref. Levels are abstract
\* values 0..MaxLevel (the exact level is computed by vadTick).
MaxSetups == 2
MaxLevel == 2
NullRef == 0

MeterIdle ==
  [fn |-> "meter", pc |-> "idle", vadIntervalRef |-> NullRef,
   vadSourceRef |-> NullRef, analyserRef |-> NullRef, timers |-> {},
   connected |-> {}, volumeLevel |-> 0, recorder |-> "none",
   setups |-> 0, stops |-> 0, threw |-> FALSE, error |-> FALSE]

\* setupVAD and recorder.start() of one startRecording; isRec is the
\* isRecording of the render whose setupVAD runs, hasCtx whether
\* audioContextRef.current is set.
setupVAD(m, isRec, hasCtx) ==
  LET n == m.setups + 1 IN
  IF ~hasCtx
    THEN [m EXCEPT !.setups = n, !.pc = "set", !.recorder = "recording",
                   !.stops = 0, !.threw = FALSE]
    ELSE
  [m EXCEPT !.setups = n, !.pc = "set",
            !.vadSourceRef = n, !.analyserRef = n,
            !.connected = @ \cup {n},
            !.vadIntervalRef = n,
            !.timers = @ \cup {[id |-> n, isRecording |-> isRec]},
            !.recorder = "recording", !.stops = 0,
            !.threw = FALSE]

\* The interval callback of timer t reading the level lvl.
meterTick(m, t, lvl) ==
  IF ~t.isRecording /\ m.recorder = "inactive"
    THEN [m EXCEPT !.pc = "ticked",
                   !.timers = {u \in @ : u.id # m.vadIntervalRef}]
    ELSE [m EXCEPT !.pc = "ticked", !.volumeLevel = lvl]

\* A variant of teardownMeter that stops the recorder only: the meter is
\* left as it is.
teardownMeterRecorderOnly(m, throws) ==
  [m EXCEPT !.pc = "stopped",
            !.recorder = IF @ = "recording" THEN "inactive" ELSE @,
            !.stops = IF @ < 2 THEN @ + 1 ELSE @]

\* stopRecording, lines 590-610; throws: a disconnect() raises.
teardownMeter(m, throws) ==
  [m EXCEPT !.pc = "stopped",
            !.timers = {u \in @ : u.id # m.vadIntervalRef},
            !.vadIntervalRef = NullRef,
            !.connected = @ \ {m.vadSourceRef, m.analyserRef},
            !.vadSourceRef = NullRef,
            !.analyserRef = NullRef,
            !.volumeLevel = 0,
            !.recorder = IF @ = "recording" THEN "inactive" ELSE @,
            !.stops = IF @ < 2 THEN @ + 1 ELSE @,
            !.threw = throws /\ (m.vadSourceRef # NullRef
                                \/ m.analyserRef # NullRef),
            !.error = FALSE]

MeterFrame ==
  UNCHANGED <<ctxState, playbackVars, msgVars, loadVars, shadowVars,
              recVars, ttsVars, procVars, lateRequest, earlyRequest,
              fallbackLog, lastGiveUp, scope, alerts, recordings, inputs>>

MeterSetup(isRec, hasCtx) ==
  /\ call.fn = "meter" /\ call.setups < MaxSetups
  /\ call' = setupVAD(call, isRec, hasCtx)
  /\ MeterFrame

MeterTick(t, lvl) ==
  /\ call.fn = "meter" /\ t \in call.timers
  /\ call' = meterTick(call, t, lvl)
  /\ MeterFrame

MeterStop(throws) ==
  /\ call.fn = "meter"
  /\ call' = teardownMeter(call, throws)
  /\ MeterFrame

InitMeter ==
  /\ AppMounted([turns |-> 0, inputs |-> 0, retry |-> 0,
                 starts |-> 1, shadow |-> FALSE])
  /\ call = MeterIdle
NextMeter ==
  \/ \E isRec, hasCtx \in BOOLEAN : MeterSetup(isRec, hasCtx)
  \/ \E id \in 1..MaxSetups, isRec \in BOOLEAN, lvl \in 0..MaxLevel :
       MeterTick([id |-> id, isRecording |-> isRec], lvl)
  \/ \E throws \in BOOLEAN : MeterStop(throws)

SpecMeter == InitMeter /\ [][NextMeter]_vars

\* ------------------------------------------------ pace matching
\* The pacing override of handleRecordingComplete as a function of the
\* paceMatch setting, recordingStartRef.current, Date.now() (both counted
\* in tenths of a second) and the transcript, computed in exact fractions. A
\* transcript is a sequence of characters, "w" a letter and " " a blank.
MaxChars == 5
ReferenceWpm == 130
TicksPerSecond == 10
SecondsPerMinute == 60
PaceFloor == Frac(8, 10)
PaceCeiling == Frac(12, 10)
RecordingStart == 10
Elapsed == {0, 4, 10, 15, 30}
SpokenTexts == UNION {[1..n -> {"w", " "}] : n \in 0..MaxChars}

\* userTranscript.trim().split(/\s+/).filter(Boolean).length: the number of
\* maximal runs of letters.
wordCount(text) ==
  Cardinality({i \in 1..Len(text) :
                 text[i] # " " /\ (i = 1 \/ text[i - 1] = " ")})

\* Math.max(1, (Date.now() - recordingStartRef.current) / 1000)
\* (a variant without the floor of one second is durationSecNoFloor)
durationSecNoFloor(now, start) == Frac(now - start, TicksPerSecond)
durationSec(now, start) ==
  FracMax(Frac(1, 1), Frac(now - start, TicksPerSecond))

\* (wordCount / durationSec) * 60 / 130
paceRatio(text, now, start) ==
  LET d == durationSec(now, start) IN
  Frac(wordCount(text) * SecondsPerMinute * d.d, d.n * ReferenceWpm)

\* Lines 692-698: the override, or undefined.
paceOverride(paceMatch, start, now, text) ==
  IF paceMatch /\ start # 0
    THEN [defined |-> TRUE,
          pace |-> FracMin(PaceCeiling,
                           FracMax(PaceFloor, paceRatio(text, now, start)))]
    ELSE [defined |-> FALSE, pace |-> Frac(0, 1)]

PaceCalls ==
  {[fn |-> "pace", pc |-> "called", paceMatch |-> pm,
    start |-> RecordingStart, now |-> RecordingStart + e, text |-> t,
    defined |-> FALSE, pace |-> Frac(0, 1)] :
     pm \in BOOLEAN, e \in Elapsed, t \in SpokenTexts}

PaceCompute ==
  /\ call.fn = "pace" /\ call.pc = "called"
  /\ LET o == paceOverride(call.paceMatch, call.start, call.now, call.text)
     IN call' = [call EXCEPT !.pc = "returned", !.defined = o.defined,
                             !.pace = o.pace]
  /\ UNCHANGED <<ctxState, playbackVars, msgVars, loadVars, shadowVars,
                 recVars, ttsVars, procVars, lateRequest, earlyRequest,
                 fallbackLog, lastGiveUp, scope, alerts, recordings, inputs>>

InitPace ==
  /\ AppMounted([turns |-> 0, inputs |-> 0, retry |-> 0,
                 starts |-> 1, shadow |-> FALSE])
  /\ call \in PaceCalls
NextPace == PaceCompute

SpecPace == InitPace /\ [][NextPace]_vars

\* ------------------------------------------------ unlockAudioContext
\* One unlockAudioContext call after another, with the clocks the probe
\* depends on. Time is counted in steps of 20 ms: the probe tone lasts
\* ToneTicks of rendered audio (the audio clock advances only while the
\* context is running) and the fallback timer TimeoutTicks of wall time.
\* ensureAudioContext always returns a context.
ToneTicks == 1
TimeoutTicks == 5
MaxCalls == 3
CtxStates == {"suspended", "running", "closed"}

UnlockCalls ==
  {[fn |-> "unlock", pc |-> "idle", state |-> st, wall |-> 0, audio |-> 0,
    result |-> FALSE, calls |-> 0] : st \in {"suspended", "running"}}

\* The promise callback up to the timer: the probe is started, or
\* createOscillator throws (a closed context) and the catch resolves false.
unlockProbe(c, st) ==
  IF st = "closed"
    THEN [c EXCEPT !.pc = "returned", !.state = st, !.result = FALSE]
    ELSE [c EXCEPT !.pc = "probing", !.state = st, !.wall = 0, !.audio = 0]

\* Lines 156-165: up to await ctx.resume(), or on to the promise.
unlockCall(c) ==
  LET d == [c EXCEPT !.calls = @ + 1, !.wall = 0, !.audio = 0,
                     !.result = FALSE] IN
  IF c.state = "suspended" THEN [d EXCEPT !.pc = "resuming"]
  ELSE unlockProbe(d, c.state)

\* ctx.resume() settled with outcome o.
unlockResumed(c, o) ==
  IF o = "reject" THEN [c EXCEPT !.pc = "returned", !.result = FALSE]
  ELSE unlockProbe(c, IF o = "running" THEN "running" ELSE c.state)

\* A variant of unlockTimeout that resolves true whatever the state.
unlockTimeoutTrue(c) == [c EXCEPT !.pc = "returned", !.result = TRUE]

\* setTimeout(() => resolve(ctx.state === 'running'), 100)
unlockTimeout(c) ==
  [c EXCEPT !.pc = "returned", !.result = (c.state = "running")]

\* osc.onended = () => resolve(true)
unlockToneEnded(c) == [c EXCEPT !.pc = "returned", !.result = TRUE]

UnlockFrame ==
  UNCHANGED <<ctxState, playbackVars, msgVars, loadVars, shadowVars,
              recVars, ttsVars, procVars, lateRequest, earlyRequest,
              fallbackLog, lastGiveUp, scope, alerts, recordings, inputs>>

UnlockCall ==
  /\ call.fn = "unlock" /\ call.pc \in {"idle", "returned"}
  /\ call.calls < MaxCalls
  /\ call' = unlockCall(call)
  /\ UnlockFrame

\* resume() rejects for a context that is not running, and leaves a
\* context suspended only if it is.
UnlockResume(o) ==
  /\ call.fn = "unlock" /\ call.pc = "resuming"
  /\ o = "reject" => call.state # "running"
  /\ o = "running" => call.state # "closed"
  /\ o = "still" => call.state = "suspended"
  /\ call' = unlockResumed(call, o)
  /\ UnlockFrame

\* 20 ms pass while the probe is waited for.
UnlockTick ==
  /\ call.fn = "unlock" /\ call.pc = "probing"
  /\ call.wall < TimeoutTicks
  /\ call' = [call EXCEPT
                !.wall = @ + 1,
                !.audio = IF call.state = "running" /\ @ < ToneTicks
                            THEN @ + 1 ELSE @]
  /\ UnlockFrame

UnlockToneEnded ==
  /\ call.fn = "unlock" /\ call.pc = "probing"
  /\ call.audio >= ToneTicks
  /\ call' = unlockToneEnded(call)
  /\ UnlockFrame

UnlockTimeout ==
  /\ call.fn = "unlock" /\ call.pc = "probing"
  /\ call.wall >= TimeoutTicks
  /\ call' = unlockTimeout(call)
  /\ UnlockFrame

\* The context changes state under the call: a resume() made by another
\* handler in a user gesture starts it, the unmount cleanup closes it.
UnlockCtxChange(st) ==
  /\ call.fn = "unlock" /\ call.pc # "idle"
  /\ \/ call.state = "suspended" /\ st = "running"
     \/ call.state # "closed" /\ st = "closed"
  /\ call' = [call EXCEPT !.state = st]
  /\ UnlockFrame

InitUnlock ==
  /\ AppMounted([turns |-> 0, inputs |-> 0, retry |-> 0,
                 starts |-> 1, shadow |-> FALSE])
  /\ call \in UnlockCalls
NextUnlock ==
  \/ UnlockCall
  \/ \E o \in ResumeOutcomes : UnlockResume(o)
  \/ UnlockTick
  \/ UnlockToneEnded
  \/ UnlockTimeout
  \/ \E st \in CtxStates : UnlockCtxChange(st)

SpecUnlock == InitUnlock /\ [][NextUnlock]_vars

\* The same with time passing and the fallback timer firing: setTimeout
\* always calls back.
SpecUnlockFair ==
  /\ InitUnlock /\ [][NextUnlock]_vars
  /\ WF_vars(UnlockTick) /\ WF_vars(UnlockTimeout)

\* One turn with request failures and the retry timers running up to the
\* ceiling, under weak fairness: a step that stays possible (a timer, a
\* settling promise, an event, a click within the scope) is eventually
\* taken.
InitFair == Mounted([turns |-> MaxTurns - 1, inputs |-> 0,
                     retry |-> RetryCeiling + 1,
                     starts |-> 1, shadow |-> FALSE])
NextFair ==
  \/ RenderNext
  \/ RecordingNext
  \/ ReplyNext
  \/ FailureNext
  \/ ChainNext

SpecFair == InitFair /\ [][NextFair]_vars /\ WF_vars(NextFair)

\* ------------------------------------------------------------- properties
PlayAwaits == {"pResume", "pSleep"}

\* A buffer source playing message id is started by the step.
Started(id) ==
  \E x \in sources' :
    /\ x.kind = "msg" /\ x.msg = id /\ x.st = "playing"
    /\ \A y \in sources : y.sid # x.sid

\* a is in the queue q at an earlier position than b.
Precedes(q, a, b) ==
  \E i, j \in 1..Len(q) : i < j /\ q[i] = a /\ q[j] = b

\* C1: in every reachable state at most one buffer source started by
\* playMessageAudio or playBuffer is active (started, neither stopped nor
\* ended), for any interleaving of play calls.
C1_AtMostOneActiveSource == Cardinality(Active(sources)) <= 1

\* C2: when a playMessageAudio(id) call gets past its resume attempt and
\* the context is not running, the step starts no source, leaves id in the
\* pending queue exactly once, leaves audioUnlockRequired true, and the call
\* returns false (a direct or manual play records the result, a chain's
\* then-callback reschedules the chain).
C2_BlockedPlay ==
  [][/\ \A t \in Turns :
          (/\ turn[t].pc \in PlayAwaits
           /\ turn'[t].pc \notin PlayAwaits
           /\ ctxState' # "running")
          => /\ sources' = sources
             /\ Count(pendingQueue', BotId(t)) = 1
             /\ audioUnlockRequired'
             /\ turn'[t].ret = "blocked"
     /\ \A i \in ChainIds :
          (/\ chains[i].st \in PlayAwaits
           /\ chains'[i].st \notin PlayAwaits
           /\ ctxState' # "running")
          => /\ sources' = sources
             /\ Count(pendingQueue', chains[i].msg) = 1
             /\ audioUnlockRequired'
             /\ chains'[i].st = "timer"
             /\ chains'[i].n = chains[i].n + 1
     /\ \A m \in ManualIds :
          (/\ manual[m].pc \in PlayAwaits
           /\ manual'[m].pc \notin PlayAwaits
           /\ ctxState' # "running")
          => /\ sources' = sources
             /\ Count(pendingQueue', manual[m].msg) = 1
             /\ audioUnlockRequired'
             /\ manual'[m].ret = "blocked"]_vars

\* A direct play returned false with the context not running: its id is
\* queued once and the prompt is up.
C2_Witness ==
  \E t \in Turns :
    /\ turn[t].ret = "blocked"
    /\ ctxState # "running"
    /\ Count(pendingQueue, BotId(t)) = 1
    /\ audioUnlockRequired

\* C3: pending-queue draining is queue-ordered: while id A is in the pending
\* queue ahead of id B, no step starts a playback of B, and no step removes
\* B from the queue while A stays in it.
C3_QueueOrderedDrain ==
  [][\A a, b \in Turns :
       Precedes(pendingQueue, BotId(a), BotId(b))
       => /\ ~Started(BotId(b))
          /\ Includes(pendingQueue', BotId(a))
             => Includes(pendingQueue', BotId(b))]_vars

\* C4: an id leaves the pending queue only in a step that starts the
\* playback of that same id, also when drain or play attempts overlap.
C4_RemovedOnlyWhenPlayed ==
  [][\A t \in Turns :
       (Includes(pendingQueue, BotId(t)) /\ ~Includes(pendingQueue', BotId(t)))
       => Started(BotId(t))]_vars

\* C5 as stated: a retry chain makes at most 20 failed pending-play
\* attempts; the chain that gives up has made exactly 20.
C5_StopsAfterTwenty ==
  /\ \A i \in ChainIds : chains[i].fails <= 20
  /\ lastGiveUp.any => lastGiveUp.fails = 20

\* C5 amended: a chain's failed attempts are its retry count minus the
\* count it started with (1 after stopRecording or a failed direct play, 0
\* after a user gesture); the count never passes 21; the invocation with
\* count 21 gives up after 21 - start failed attempts (20 or 21), raises
\* audioUnlockRequired and schedules no timer.
C5_RetryCeiling ==
  [][/\ \A i \in ChainIds :
          chains'[i].st # "free"
          => /\ chains'[i].start \in {0, 1}
             /\ chains'[i].fails = chains'[i].n - chains'[i].start
             /\ chains'[i].n <= RetryCeiling + 1
     /\ lastGiveUp' # lastGiveUp
        => /\ lastGiveUp'.fails = RetryCeiling + 1 - lastGiveUp'.start
           /\ audioUnlockRequired'
           /\ \A i \in ChainIds :
                chains'[i] = chains[i] \/ chains'[i].st = "free"]_vars

\* A chain started by a user gesture gave up after 21 failed attempts.
C5_Witness ==
  /\ lastGiveUp.any
  /\ lastGiveUp.start = 0
  /\ lastGiveUp.fails = RetryCeiling + 1
  /\ audioUnlockRequired

\* C6: no turn's first remote synthesis request was issued before its
\* messages were appended or while loading was still set, and every turn
\* that has issued a request has both its messages in the list.
C6_TextBeforeSpeech ==
  /\ earlyRequest = {}
  /\ \A t \in Turns :
       turn[t].attempts > 0
       => /\ \E i \in 1..Len(messages) : messages[i].id = 0 - t
          /\ \E i \in 1..Len(messages) : messages[i].id = t

\* A turn's first request is in flight: its messages are in the list and
\* loading is cleared although no synthesis response has arrived.
C6_Witness ==
  \E t \in Turns :
    /\ turn[t].pc = "tts"
    /\ turn[t].attempts = 1
    /\ HasMsg(messages, BotId(t))
    /\ ~isLoading

\* The list is made of (user, bot) pairs of one turn each.
Paired(ms) ==
  /\ Len(ms) % 2 = 0
  /\ \A k \in 1..(Len(ms) \div 2) :
       /\ ms[2 * k - 1].sender = "user"
       /\ ms[2 * k].sender = "bot"
       /\ ms[2 * k - 1].id = 0 - ms[2 * k].id
  /\ \A i, j \in 1..Len(ms) : ms[i].id = ms[j].id => i = j

\* C7: a step in which a turn's analysis succeeds appends exactly the
\* turn's user message and then its bot message, the latter without audio;
\* a bot message gains its audio only in the step in which its turn's
\* synthesis resolves; no other step changes the list, so the list always
\* consists of adjacent (user, bot) pairs.
C7_PairsAppended ==
  [][/\ Paired(messages')
     /\ \A t \in Turns :
          (turn[t].pc = "analyze" /\ turn'[t].pc \notin {"analyze", "done"})
          => /\ Len(messages') = Len(messages) + 2
             /\ SubSeq(messages', 1, Len(messages)) = messages
             /\ messages'[Len(messages) + 1].id = 0 - t
             /\ messages'[Len(messages) + 1].sender = "user"
             /\ messages'[Len(messages) + 2].id = t
             /\ messages'[Len(messages) + 2].sender = "bot"
             /\ ~messages'[Len(messages) + 2].audioBuffer
     /\ (\A t \in Turns :
           ~(turn[t].pc = "analyze" /\ turn'[t].pc \notin {"analyze", "done"}))
        => /\ Len(messages') = Len(messages)
           /\ \A i \in 1..Len(messages) :
                \/ messages'[i] = messages[i]
                \/ /\ messages'[i] = [messages[i] EXCEPT !.audioBuffer = TRUE]
                   /\ messages[i].sender = "bot"
                   /\ turn[messages[i].id].pc = "tts"
                   /\ turn'[messages[i].id].pc \in {"uResume", "uTone"}]_vars

\* Two turns overlapped: the second pair was appended while the first
\* turn's synthesis was still pending, and the first then gained its audio.
C7_Witness ==
  /\ Len(messages) = 4
  /\ messages[2].id = 1 /\ messages[2].audioBuffer
  /\ messages[4].id = 2 /\ ~messages[4].audioBuffer
  /\ turn[2].pc = "tts"

\* C8: the step in which a turn's analysis request fails appends no
\* message, adds nothing to the pending queue, issues no synthesis request
\* and leaves isLoading false; the aborted turn never has a message, a
\* queue entry or a request later either.
C8_AnalysisFailureAborts ==
  [][\A t \in Turns :
       /\ (turn[t].pc = "analyze" /\ turn'[t].pc = "done")
          => /\ messages' = messages
             /\ pendingQueue' = pendingQueue
             /\ turn'[t].attempts = 0
             /\ prefetch' = prefetch
             /\ speak' = speak
             /\ ~isLoading'
       /\ (turn'[t].pc = "done" /\ turn'[t].text = Null)
          => /\ ~HasMsg(messages', BotId(t)) /\ ~HasMsg(messages', UserId(t))
             /\ ~Includes(pendingQueue', BotId(t))
             /\ turn'[t].attempts = 0]_vars

\* A turn was aborted by an analysis failure.
C8_Witness ==
  \E t \in Turns :
    /\ turn[t].pc = "done"
    /\ turn[t].text = Null
    /\ ~HasMsg(messages, BotId(t))
    /\ ~isLoading

\* C9: the quota flag never goes back to false, and no remote synthesis
\* request is issued by any path while it is set.
C9_QuotaFlagStopsRequests ==
  [][/\ ttsQuotaExceeded => ttsQuotaExceeded'
     /\ lateRequest' = {}]_vars

\* C10: a reply never gets a third remote attempt; when its second remote
\* attempt in a row failed with a message containing "quota" in any case or
\* RESOURCE_EXHAUSTED, the quota flag is set, exactly two remote attempts
\* were made and speakWithBrowser was invoked with the reply's text.
C10_QuotaFallback ==
  \A t \in Turns :
    /\ turn[t].attempts <= 2
    /\ (turn[t].fails = 2 /\ turn[t].err \in {ErrResourceExhausted,
                                             ErrQuotaCapital})
       => /\ ttsQuotaExceeded
          /\ turn[t].attempts = 2
          /\ turn[t].pc \in {"fallback", "done"}
          /\ [msg |-> BotId(t), text |-> turn[t].text] \in fallbackLog

\* A reply whose second attempt failed with "Quota hit" is being spoken by
\* the on-device fallback.
C10_Witness ==
  \E t \in Turns :
    /\ turn[t].fails = 2
    /\ turn[t].err = ErrQuotaCapital
    /\ turn[t].pc = "fallback"
    /\ ttsQuotaExceeded

\* An error message that names the quota: "quota" in any case, or
\* RESOURCE_EXHAUSTED.
NamesQuota(err) ==
  err \in {ErrResourceExhausted, ErrQuotaCapital, ErrTtsQuotaExceeded}

\* C11: a reply gets at most two remote synthesis requests; a request is
\* issued only while the quota flag is clear; the second is issued only by
\* the step that ends the back-off after one failure whose error does not
\* name the quota; a call of generateSpeechWithRetry made with the flag set
\* issues no request and hands the reply to the on-device fallback.
C11_AtMostOneRetry ==
  [][\A t \in Turns :
       /\ turn'[t].attempts <= 2
       /\ turn'[t].attempts # turn[t].attempts
          => /\ turn'[t].attempts = turn[t].attempts + 1
             /\ ~ttsQuotaExceeded
             /\ turn'[t].pc = "tts"
             /\ turn[t].attempts = 1
                => /\ turn[t].pc = "backoff"
                   /\ turn[t].fails = 1
                   /\ ~NamesQuota(turn[t].err)
       /\ (/\ ttsQuotaExceeded
           /\ \/ turn[t].pc = "analyze" /\ turn'[t].pc \notin {"analyze", "done"}
              \/ turn[t].pc = "backoff" /\ turn'[t].pc # "backoff")
          => /\ turn'[t].attempts = turn[t].attempts
             /\ turn'[t].pc = "fallback"
             /\ [msg |-> BotId(t), text |-> turn'[t].text] \in fallbackLog']_vars

\* One reply got its second request after a failure and the back-off and
\* that request hit the quota; the other reply, analysed afterwards, got no
\* request and is spoken by the fallback.
C11_Witness ==
  \E t, u \in Turns :
    /\ turn[t].pc = "fallback" /\ turn[t].attempts = 0
    /\ turn[u].attempts = 2 /\ turn[u].fails = 2 /\ NamesQuota(turn[u].err)

\* The step in which the retry of turn t's synthesis fails with an error
\* that does not name the quota.
RetryFailed(t) ==
  /\ turn[t].pc = "tts"
  /\ turn[t].fails = 1
  /\ turn'[t].fails = 2
  /\ ~NamesQuota(turn'[t].err)

\* The bot message of turn t is in the list ms without an audio buffer.
TextOnly(ms, t) ==
  \E i \in 1..Len(ms) : ms[i].id = t /\ ~ms[i].audioBuffer

Analysed == {t \in Turns : turn[t].pc # "none"}

\* C13: when getUserMedia is refused, startRecording alerts and the session
\* stays idle: isRecording is false before and after, no recorder is
\* created or referenced, the volume meter (interval and analyser nodes) is
\* not started, and no clip or analysis comes of that start: every turn
\* analysed and every live recorder belongs to a start that was not refused.
C13_DeniedStaysIdle ==
  [][/\ alerts' # alerts =>
          /\ alerts' = alerts + 1
          /\ ~isRecording /\ ~isRecording'
          /\ UNCHANGED <<recorders, mediaRecorderRef, audioChunks,
                         vadIntervalRef, vadNodes, turn, isLoading,
                         messages>>
     /\ Cardinality(Analysed) + Cardinality(recorders) + alerts
          <= recordings]_vars

\* Both starts of a session were refused and nothing was recorded.
C13_Witness ==
  /\ alerts = 2 /\ recordings = 2
  /\ ~isRecording /\ ~isLoading
  /\ recorders = {} /\ mediaRecorderRef = Null
  /\ ~vadIntervalRef /\ ~vadNodes
  /\ Analysed = {}

\* ---------------------------------------------------------------- C14
\* The step is the stop event of a recorder (handleRecordingComplete).
StopEvent == \E r \in recorders : r.st = "stopEvt" /\ r \notin recorders'

\* C14: a recording that stops with no chunk collected is discarded in
\* silence: its stop event starts no turn (no clip, no analysis request),
\* adds no message, leaves isLoading as it was, raises no alert, speaks no
\* fallback, and sets isRecording to false.
C14_EmptyClipDiscarded ==
  [][StopEvent /\ audioChunks = 0 =>
       /\ UNCHANGED <<turn, isLoading, messages, alerts, fallbackLog,
                      audioChunks>>
       /\ ~isRecording']_vars

\* The only recording of the session so far was started, stopped and
\* delivered its stop event with no chunk.
C14_Witness ==
  /\ recordings = 1 /\ alerts = 0 /\ starter[1] = "idle"
  /\ mediaRecorderRef # Null /\ recorders = {}
  /\ audioChunks = 0
  /\ Analysed = {} /\ messages = <<>>
  /\ ~isRecording /\ ~isLoading

\* ---------------------------------------------------------------- C15
\* The step attaches the synthesised buffer of turn t's reply (lines
\* 718-727).
Attaches(t) == turn[t].pc = "tts" /\ turn'[t].pc \in {"uResume", "uTone"}

BareRepeat ==
  /\ call.fn = "repeat" /\ call.pc = "returned"
  /\ \E i \in 1..Len(repeatPhrases) :
       normalizeRepeatInput(call.responseData.userTranscript)
         = repeatPhrases[i]

\* The reply says what bot message m said, with everything else cleared and
\* the user's fields taken from the new turn.
SaysAgain(m) ==
  /\ call.result.targetText = m.content.targetText
  /\ call.result.transliteration = m.content.transliteration
  /\ call.result.englishTranslation = m.content.englishTranslation
  /\ call.result.vocabulary = <<>>
  /\ call.result.culturalNotes = <<>>
  /\ call.result.feedback = Undefined
  /\ call.result.systemCommand = Undefined
  /\ call.result.userTranscript = call.responseData.userTranscript
  /\ call.result.userTransliteration = call.responseData.userTransliteration

BotEntries == {i \in 1..Len(call.messages) : call.messages[i].sender = "bot"}

\* C16 as stated: for a bare repeat phrase the reply is the immediately
\* preceding bot message's text, transliteration and translation, with
\* vocabulary and notes empty, feedback and system command absent, and the
\* user transcript fields of the new turn.
C16_RepeatAlwaysSubstituted ==
  BareRepeat =>
    /\ BotEntries # {}
    /\ SaysAgain(call.messages[Greatest(BotEntries)])

\* C16, amended: that holds when a bot message precedes; when the list has
\* no bot message the analysis result is appended as it came.
C16_RepeatSaysPreviousReply ==
  BareRepeat =>
    IF BotEntries # {}
      THEN SaysAgain(call.messages[Greatest(BotEntries)])
      ELSE call.result = call.responseData

\* 'Repeat It' (plus a newline) after two turns: the reply says the second
\* turn's text again, and the analysis had returned vocabulary.
C16_Witness ==
  /\ BareRepeat
  /\ Len(normalizeRepeatInput(call.responseData.userTranscript)) = 9
  /\ Len(call.responseData.userTranscript) = 10
  /\ Len(call.messages) = 4
  /\ call.responseData.vocabulary # <<>>
  /\ call.result.targetText = <<"2">>

\* ---------------------------------------------------------------- C17
RECURSIVE SumOf(_)
SumOf(q) == IF q = <<>> THEN 0 ELSE Head(q) + SumOf(Tail(q))

\* Twelve times the mean of the first twelve averages of the recording.
WindowSum == SumOf(SubSeq(call.heard, 1, CalibrationSamples))
LastHeard == call.heard[Len(call.heard)]

\* level = min(max(0, sample - floor) / 100, 1) for floor = fsum / fcount.
LevelIs(level, sample, fsum, fcount) ==
  LET excess == sample * fcount - fsum IN
  IF excess <= 0 THEN level.n = 0
  ELSE IF excess >= LevelScale * fcount THEN level.n = level.d
  ELSE level.n * LevelScale * fcount = level.d * excess

\* C17: with noise guard on, the floor is unknown until the recording has
\* had 12 samples and from then on it is the arithmetic mean of those 12;
\* from the 12th sample on the level shown is
\* min(max(0, sample - floor) / 100, 1).  With noise guard off the floor is
\* never set and the level is min(sample / 100, 1).  The level is always in
\* [0, 1], and a new recording starts with the floor unknown.
C17_NoiseFloor ==
  call.fn = "vad" =>
    /\ call.volumeLevel.d > 0
    /\ 0 <= call.volumeLevel.n /\ call.volumeLevel.n <= call.volumeLevel.d
    /\ call.heard = <<>> => call.noiseFloorRef.null
    /\ (call.noiseGuard /\ Len(call.heard) < CalibrationSamples)
         => call.noiseFloorRef.null
    /\ (call.noiseGuard /\ Len(call.heard) >= CalibrationSamples)
         => /\ ~call.noiseFloorRef.null
            /\ call.noiseFloorRef.value.d > 0
            /\ call.noiseFloorRef.value.n * CalibrationSamples
                 = call.noiseFloorRef.value.d * WindowSum
            /\ LevelIs(call.volumeLevel, LastHeard, WindowSum,
                       CalibrationSamples)
    /\ (call.heard # <<>>
        /\ (~call.noiseGuard \/ Len(call.heard) < CalibrationSamples))
         => LevelIs(call.volumeLevel, LastHeard, 0, 1)
    /\ ~call.noiseGuard => call.noiseFloorRef.null

\* The second recording of a session with noise guard on: eleven quiet
\* samples and a loud one fixed the floor at 305 / 12, and the 13th sample,
\* a quiet one, is shown as level 0.
C17_Witness ==
  /\ call.fn = "vad" /\ call.noiseGuard /\ call.session = 2
  /\ Len(call.heard) = CalibrationSamples + 1
  /\ WindowSum = 305
  /\ ~call.noiseFloorRef.null
  /\ LastHeard = 5
  /\ call.volumeLevel.n = 0

\* ---------------------------------------------------------------- C18
\* The clip is valid 16-bit PCM: a whole, positive number of samples.
ValidPcm == call.stray = <<>> /\ call.pcm # <<>>
ByteLength == 2 * Len(call.pcm) + Len(call.stray)

\* C18: for a valid 16-bit PCM clip decodeAudioData throws nothing and
\* returns a buffer of one channel whose length is the byte length / 2 and
\* whose i-th sample is the i-th signed 16-bit value / 32768, which lies in
\* [-1, 1].
C18_DecodePcm ==
  (call.fn = "decode" /\ call.pc = "returned" /\ ValidPcm) =>
    /\ call.result.threw = "none"
    /\ call.result.numberOfChannels = 1
    /\ call.result.length * 2 = ByteLength
    /\ Len(call.result.channelData) = call.result.length
    /\ \A i \in 1..Len(call.pcm) :
         LET x == call.result.channelData[i] IN
         /\ x.d > 0
         /\ x.n * 32768 = call.pcm[i] * x.d
         /\ 0 - x.d <= x.n /\ x.n <= x.d

\* A clip of three samples, the lowest, the highest and -1, was decoded to
\* -1, 32767 / 32768 and -1 / 32768.
C18_Witness ==
  /\ call.fn = "decode" /\ call.pc = "returned"
  /\ call.pcm = <<0 - 32768, 32767, 0 - 1>> /\ call.stray = <<>>
  /\ call.result.threw = "none"
  /\ call.result.length = 3
  /\ call.result.channelData[1].n = 0 - call.result.channelData[1].d
  /\ call.result.channelData[2].n = 32767
  /\ call.result.channelData[3].n = 0 - 1

\* ---------------------------------------------------------------- C19
\* The stored record is corrupt: one of its fields is not of the type of
\* the setting.
CorruptRecord ==
  \E k \in DOMAIN call.record :
    call.record[k].type # defaultSettings[k].type

\* C19: the loaded settings have every field of the defaults; a sound
\* stored record overrides the defaults field by field and its missing
\* fields take the default; absent, unparsable and corrupt data (a JSON
\* text that is no record, or a record with a field of the wrong type)
\* yields exactly the defaults.
C19_LoadFallsBackToDefaults ==
  (call.fn = "settings" /\ call.pc = "returned") =>
    /\ DOMAIN defaultSettings \subseteq DOMAIN call.settings
    /\ IF call.kind = "record" /\ ~CorruptRecord
         THEN \A k \in DOMAIN defaultSettings :
                call.settings[k] =
                  IF k \in DOMAIN call.record THEN call.record[k]
                  ELSE defaultSettings[k]
         ELSE call.settings = defaultSettings

\* ---------------------------------------------------------------- C20
\* A recorder that getUserMedia's success started has not been stopped.
RecordingInProgress == \E r \in recorders : r.st = "recording"

\* C20: a step taken while a recording is in progress, and that leaves it
\* in progress, starts no buffer source of a message.
C20_NoPlaybackWhileRecording ==
  [][(RecordingInProgress /\ RecordingInProgress')
       => \A x \in sources' \ sources : x.kind # "msg"]_vars

\* ---------------------------------------------------------------- C21
\* The synthesis of turn t's reply failed for good, for a reason other than
\* the quota.
SynthesisFailed(t) ==
  /\ turn[t].pc = "done"
  /\ turn[t].fails > 0
  /\ ~NamesQuota(turn[t].err)
  /\ HasMsg(messages, BotId(t))
  /\ ~FindAudio(messages, BotId(t))

\* C21: the id of a reply whose synthesis failed for a non-quota reason is
\* eventually out of the pending queue.
C21_FailedIdLeavesQueue ==
  \A t \in Turns :
    [](SynthesisFailed(t) => <>(~Includes(pendingQueue, BotId(t))))

\* ---------------------------------------------------------------- C22
\* The retry chains alive: a 250 ms timer is scheduled or the chain's
\* playMessageAudio call is at an await.
LiveChains == {i \in ChainIds : chains[i].st # "free"}

\* C22: at most one tryPlayPending chain is alive.
C22_OneChainAtATime == Cardinality(LiveChains) <= 1

\* ---------------------------------------------------------------- C23
\* C23: while the source that sourceNodeRef holds is a playing message
\* source, currentlyPlayingId is that message's id.
C23_MarkerFollowsPlayback ==
  \A x \in sources :
    (x.st = "playing" /\ x.kind = "msg" /\ x.sid = sourceNodeRef)
      => currentlyPlayingId = x.msg


Capturing == {r \in recorders : r.st = "recording"}

\* C24: at most one MediaRecorder is capturing, and a capturing recorder is
\* the one mediaRecorderRef holds, which stopRecording stops.
C24_OneCaptureSession ==
  /\ Cardinality(Capturing) <= 1
  /\ \A r \in Capturing : r.rid = mediaRecorderRef


\* The shadow-start timer fires and its callback calls startRecording.
ShadowStart == shadowTimer /\ ~shadowTimer' /\ recordings' = recordings + 1
StartInFlight == \E i \in StarterIds : starter[i] # "idle"
AnalysisInFlight == \E t \in Turns : turn[t].pc = "analyze"

\* C25: the shadow-start timer starts a recording only when shadow mode is
\* on and nothing is recording or loading, and never while a startRecording
\* call of the user or an analysis request is in flight.
C25_ShadowStartNeverRaces ==
  [][ShadowStart =>
       /\ shadowMode /\ ~isRecording /\ ~isLoading
       /\ Capturing = {}
       /\ ~StartInFlight
       /\ ~AnalysisInFlight]_vars


\* A shadow-start timer is set: none was pending and one is pending now.
ShadowScheduled == ~shadowTimer /\ shadowTimer'
\* The ended event handled by the step belongs to a source that played to
\* its end, not to one that stop() ended.
NaturalEnd == \E x \in sources \ sources' : x.st = "playing"

\* C26: a shadow-start timer is set only by the ended event of a reply that
\* played to its end; the ended event of a stopped source sets none.
C26_ScheduledOnNaturalEndOnly == [][ShadowScheduled => NaturalEnd]_vars


\* The direct path of turn t has played its reply.
AutoPlayed(t) == turn[t].pc = "done" /\ turn[t].ret = "played"

\* C27: a reply that the direct path has played is not in the pending
\* queue, and no later step starts a playback of it.
C27_AutoPlayedOnce ==
  [][\A t \in Turns :
       AutoPlayed(t) => /\ ~Includes(pendingQueue, BotId(t))
                        /\ ~Started(BotId(t))]_vars


Unmounts == ctxState # "closed" /\ ctxState' = "closed"
StopsRecording == stopper = "idle" /\ stopper' # "idle"
ShadowDisabled == shadowModeRef /\ ~shadowModeRef'
RetryTimers == {i \in ChainIds : chains[i].st = "timer"}

\* C28: stopRecording leaves no volume-polling interval, the effect that
\* sees shadow mode switched off leaves no shadow-start timer, and the
\* teardown leaves no interval, no shadow-start timer and no retry timer of
\* the pending queue.
C28_NoTimerAfterTeardown ==
  [][/\ StopsRecording => ~vadIntervalRef'
     /\ ShadowDisabled => ~shadowTimer'
     /\ Unmounts => /\ ~vadIntervalRef'
                    /\ ~shadowTimer'
                    /\ RetryTimers' = {}]_vars


RephraseInFlight == rephrase.pc = "req"

\* C29: isLoading is true while an analysis request or a rephrase request
\* is in flight.
C29_LoadingWhileInFlight ==
  (AnalysisInFlight \/ RephraseInFlight) => isLoading


\* handleUserGesture got past unlockAudioContext and called tryPlayPending.
GestureDrains == gesture # "idle" /\ gesture' = "idle"
HeadHasAudio ==
  pendingQueue # <<>> /\ FindAudio(messagesRef, Head(pendingQueue))

\* C30: when handleUserGesture drains after its unlock attempt with the
\* context running, a non-empty queue and a head that has audio, the step
\* starts the playback of the head, removes it from the queue and clears
\* audioUnlockRequired.
C30_GestureDrainsHead ==
  [][(GestureDrains /\ HeadHasAudio /\ ctxState' = "running")
       => /\ Started(Head(pendingQueue))
          /\ pendingQueue' = Tail(pendingQueue)
          /\ currentlyPlayingId' = Head(pendingQueue)
          /\ ~audioUnlockRequired']_vars

\* The reply of turn 1 was blocked on the direct path, no retry timer has
\* fired yet, and the gesture has played it and emptied the queue.
C30_Witness ==
  /\ turn[1].pc = "done" /\ turn[1].ret = "blocked"
  /\ inputs = 1 /\ gesture = "idle"
  /\ \A i \in ChainIds : chains[i].st = "timer" /\ chains[i].fails = 0
  /\ pendingQueue = <<>>
  /\ ~audioUnlockRequired
  /\ currentlyPlayingId = BotId(1)
  /\ \E x \in sources : x.msg = BotId(1) /\ x.st = "playing"


\* C39: no message id is in the pending queue twice.
C39_NoDuplicateIds ==
  \A i, j \in 1..Len(pendingQueue) :
    pendingQueue[i] = pendingQueue[j] => i = j

\* Both replies are queued and the direct play of one of them was blocked
\* with its id already in the queue.
C39_Witness ==
  /\ Len(pendingQueue) = 2
  /\ \E t \in Turns :
       /\ turn[t].pc = "done" /\ turn[t].ret = "blocked"
       /\ Count(pendingQueue, BotId(t)) = 1


\* The analysis of turn t resolves in the step.
AnalysisResolves(t) ==
  /\ turn[t].pc = "analyze" /\ turn'[t].pc # "analyze"
  /\ HasMsg(messages', BotId(t))
\* The user is recording, or another response is awaited.
BusyBeside(t) ==
  \/ isRecording
  \/ \E u \in Turns \ {t} : turn[u].pc = "analyze"
  \/ RephraseInFlight

\* C33: when the analysis of a turn resolves with a vocabulary term, the
\* prefetch request for the term is issued if the quota flag is clear, the
\* user is not recording, no other response is awaited and the term is not
\* cached; it is not issued when one of these fails.
C33_PrefetchAfterAnalysis ==
  [][\A t \in Turns :
       (AnalysisResolves(t) /\ turn'[t].vocab # Null)
       => (prefetch'[t] = "req"
           <=> (/\ ~ttsQuotaExceeded
                /\ ~BusyBeside(t)
                /\ turn'[t].vocab \notin vocabCache))]_vars


\* C34: no step removes an entry from the vocabulary cache, and a click on
\* a term requests a synthesis only when the term is not cached.
C34_CacheGrowsAndServes ==
  [][/\ vocabCache \subseteq vocabCache'
     /\ (speak.pc = "idle" /\ speak'.pc = "req")
          => speak'.term \notin vocabCache]_vars

\* The prefetch cached the term, and the click on the term is playing the
\* cached buffer (playBuffer awaits resume) with no request in flight.
C34_Witness ==
  /\ speak.pc = "bResume" /\ speak.hit
  /\ speak.term \in vocabCache
  /\ \A t \in Turns : prefetch[t] = "none"


\* A step of handleRephrase: its start or its completion.
RephraseStep == rephrase' # rephrase
\* The step appends one bot message without audio and changes no other.
AppendsRephrasing ==
  /\ Len(messages') = Len(messages) + 1
  /\ SubSeq(messages', 1, Len(messages)) = messages
  /\ messages'[Len(messages')].sender = "bot"
  /\ ~messages'[Len(messages')].audioBuffer
  /\ ~HasMsg(messages, messages'[Len(messages')].id)

\* C35: a step of handleRephrase leaves the recording state and the
\* playback state as they are; its start appends nothing, its completion
\* appends one bot message without audio or nothing, and leaves isLoading
\* false.
C35_RephraseFrame ==
  [][RephraseStep =>
       /\ UNCHANGED <<isRecording, mediaRecorderRef, recorders, audioChunks,
                      sources, sourceNodeRef, currentlyPlayingId,
                      pendingQueue, audioUnlockRequired>>
       /\ rephrase.pc = "idle" => messages' = messages
       /\ rephrase.pc = "req"
            => /\ ~isLoading'
               /\ messages' = messages \/ AppendsRephrasing]_vars

\* A rephrasing was appended while the reply of the turn is playing: the
\* playback marker and the source are still there.
C35_Witness ==
  /\ rephrase = IdleRephrase /\ ~isLoading
  /\ \E i \in 1..Len(messages) :
       messages[i].id \notin Turns /\ messages[i].sender = "bot"
  /\ currentlyPlayingId = BotId(1)
  /\ \E x \in sources : x.sid = sourceNodeRef /\ x.st = "playing"


\* The text that follows phrase i in the normalized transcript n.
Trailing(n, i) == trim(slice(n, Len(repeatPhrases[i])))
\* Phrase i, a space and some text open the normalized transcript n, which
\* is not a listed phrase itself.
AsksLiteral(n, i) ==
  /\ startsWith(n, repeatPhrases[i] \o <<" ">>) /\ Trailing(n, i) # <<>>
  /\ \A j \in 1..Len(repeatPhrases) : n # repeatPhrases[j]

\* C36: for every listed phrase that opens the normalized transcript with a
\* space and text after it, the reply's target text is the text after that
\* phrase; a transcript that matches no listed phrase leaves the reply as
\* the analysis returned it.
C36_LiteralRepeat ==
  (call.fn = "repeat" /\ call.pc = "returned")
  => LET n == normalizeRepeatInput(call.responseData.userTranscript) IN
     /\ \A i \in 1..Len(repeatPhrases) :
          AsksLiteral(n, i) => call.result.targetText = Trailing(n, i)
     /\ (\A i \in 1..Len(repeatPhrases) :
           /\ n # repeatPhrases[i]
           /\ ~startsWith(n, repeatPhrases[i] \o <<" ">>))
        => call.result = call.responseData


\* C31: the rate of a started message source is the explicit override of
\* the call when it has one, otherwise the message's own override when it
\* has one, otherwise the speechSpeed setting, on every path.
C31_EffectiveRate ==
  (call.fn = "rate" /\ call.pc = "played")
  => call.rate = playbackRate(rateArgument(call.path, call.own), call.own,
                              call.speechSpeed)


\* The meter's refs are null, the timer and the nodes they named are gone
\* and the level is 0.
MeterDown(after, before) ==
  /\ after.vadIntervalRef = NullRef
  /\ after.vadSourceRef = NullRef /\ after.analyserRef = NullRef
  /\ \A u \in after.timers : u.id # before.vadIntervalRef
  /\ before.vadSourceRef \notin after.connected
  /\ before.analyserRef \notin after.connected
  /\ after.volumeLevel = 0

MeterStops ==
  call.fn = "meter" /\ call'.fn = "meter" /\ call'.pc = "stopped"

\* C37: a stopRecording call leaves the polling timer cancelled and its ref
\* null, the analyser and source nodes disconnected and their refs null
\* and the volume level 0, and raises no error; a call made when an
\* earlier call has already done so changes none of it.
C37_TeardownIdempotent ==
  [][MeterStops =>
       /\ MeterDown(call', call)
       /\ ~call'.error
       /\ call.pc = "stopped" =>
            /\ call'.timers = call.timers
            /\ call'.connected = call.connected
            /\ call'.vadIntervalRef = call.vadIntervalRef
            /\ call'.vadSourceRef = call.vadSourceRef
            /\ call'.analyserRef = call.analyserRef
            /\ call'.volumeLevel = call.volumeLevel
            /\ call'.recorder = call.recorder]_vars

\* A second stopRecording call has run after a recording with a live meter.
C37_Witness ==
  /\ call.fn = "meter" /\ call.pc = "stopped"
  /\ call.stops = 2 /\ call.setups > 0
  /\ \E u \in call.timers : u.id < call.setups


FracSame(a, b) == a.n * b.d = b.n * a.d

\* Words per minute over 130 for w words spoken in ms tenths of a second, the
\* duration counted as one second when it is shorter.
WpmOverReference(w, ms) ==
  Frac(w * SecondsPerMinute * TicksPerSecond,
       (IF ms < TicksPerSecond THEN TicksPerSecond ELSE ms) * ReferenceWpm)

\* C38: with pace matching on, the override is words-per-minute over 130
\* clamped to [0.8, 1.2] with a duration of at least one second (so 0.8
\* for an empty transcript and always within the bounds); with pace
\* matching off there is no override.
C38_PaceOverride ==
  (call.fn = "pace" /\ call.pc = "returned") =>
    LET r == WpmOverReference(wordCount(call.text), call.now - call.start)
    IN /\ call.defined <=> call.paceMatch
       /\ call.defined =>
            /\ ~FracLess(call.pace, PaceFloor)
            /\ ~FracLess(PaceCeiling, call.pace)
            /\ FracLess(r, PaceFloor) => FracSame(call.pace, PaceFloor)
            /\ FracLess(PaceCeiling, r) => FracSame(call.pace, PaceCeiling)
            /\ (~FracLess(r, PaceFloor) /\ ~FracLess(PaceCeiling, r))
                 => FracSame(call.pace, r)
            /\ wordCount(call.text) = 0 => FracSame(call.pace, PaceFloor)

\* An override strictly between the bounds was computed for a recording
\* shorter than one second.
C38_Witness ==
  /\ call.fn = "pace" /\ call.pc = "returned" /\ call.defined
  /\ call.now - call.start < TicksPerSecond
  /\ FracLess(PaceFloor, call.pace) /\ FracLess(call.pace, PaceCeiling)


UnlockResolves ==
  /\ call.fn = "unlock" /\ call'.fn = "unlock"
  /\ call.pc # "returned" /\ call'.pc = "returned"

ProbeOver == call'.audio >= ToneTicks \/ call'.wall >= TimeoutTicks

\* C32 as stated: unlockAudioContext resolves only once the probe tone has
\* finished or the timeout has elapsed, and its result is true exactly
\* when the context is running at that moment.
C32_ResolvesAfterProbe ==
  [][UnlockResolves =>
       /\ ProbeOver
       /\ call'.result <=> call'.state = "running"]_vars

UnlockResultSound ==
  [][UnlockResolves =>
       /\ call'.result =>
            \/ call'.audio >= ToneTicks
            \/ call'.wall >= TimeoutTicks /\ call'.state = "running"
       /\ ~ProbeOver => ~call'.result
       /\ ~call'.result => call'.state # "running"]_vars

\* C32, amended: once the probe is started the call resolves; a true result
\* comes only once the probe tone has finished, or once the timeout has
\* elapsed with the context running; a result before both is false; and a
\* false result is never given for a running context.
C32_UnlockResult ==
  /\ UnlockResultSound
  /\ (call.fn = "unlock" /\ call.pc = "probing")
       ~> (call.fn = "unlock" /\ call.pc = "returned")

\* A call has resolved false before the tone or the timeout: resume()
\* rejected.
C32_Witness ==
  /\ call.fn = "unlock" /\ call.pc = "returned" /\ ~call.result
  /\ call.wall = 0 /\ call.audio = 0 /\ call.state = "suspended"

====
